---- MODULE Spec2Model ----
(***************************************************************************)
(* Model of the sequence-field utilities of the SharedTree DDS             *)
(* (packages/dds/tree/src/feature-libraries/sequence-field/utils.ts):      *)
(* cell ordering, the mark algebra (split / merge), the CrossFieldTable    *)
(* and the DetachedNodeTracker with its consistency checkers.              *)
(*                                                                         *)
(* Optional fields of the TypeScript objects that hold an object or an     *)
(* array are modelled as a sequence of length 0 (absent) or 1 (present);   *)
(* an absent RevisionTag is the value Undef.                               *)
(***************************************************************************)
EXTENDS Integers, Sequences, FiniteSets, TLC

VARIABLES
    \* --- compareCellPositionsUsingTombstones: arguments and results
    oldMarkCell, newMarkCell, oldChangeKnowledge, newChangeKnowledge, metadata,
    order, swappedOrder,
    \* --- a second evaluation of the comparison, on another client
    otherOldCell, otherNewCell, otherOldKnowledge, otherNewKnowledge,
    otherMetadata, otherOrder,
    \* --- splitMark / tryMergeMarks: arguments and results
    mark, length, splitResult, mergeResult,
    \* --- CrossFieldTable: its fields, the value the last get returned, the
    \*     ids read with addDependency since the last reset and before it
    \*     (history) and the number of get and set calls made
    srcQueries, dstQueries, isInvalidated, mapSrc, mapDst, returned,
    dependencies, earlierDependencies, calls,
    \* --- DetachedNodeTracker: its fields, the failure an apply ended with,
    \*     the number of changes applied, the cells they reattached (history),
    \*     the cells the last isApplicable argument reattaches and its result
    nodes, equivalences, failure, applied, reattached, queried, applicable,
    \* --- the tracker before the last call of apply or isApplicable, and
    \*     the change the last apply applied (history)
    trackerBefore, lastChange,
    \* --- areComposable: argument and result
    changes, composable,
    \* --- areRebasable: arguments and result
    branchChange, targetChange, rebasable,
    \* --- tryMergeMarks: arguments and result
    lhsMark, rhsMark, mergedMark,
    \* --- isImpactful and settleMark: arguments, the result of isImpactful,
    \*     of settleMark, and of settleMark on that result
    settleArg, settleRevision, settleMetadata, impactful, settled, resettled,
    \* --- normalizeCellRename: arguments and result
    renameArg, renameChange, normalized,
    \* --- cloneMark: the objects of the program (heap), the source mark and
    \*     its clone (addresses), the value of the source mark when it was
    \*     cloned, and which of the two was mutated after the clone
    heap, sourceRef, cloneRef, sourceValue, mutatedSide,
    \* --- the attach and cell-emptiness predicates: the mark and the
    \*     changeset revision they are given, and what they return
    predicateArg, predicateRevision, facts,
    \* --- compareLineages: the two cells, the result, and the result with
    \*     the two cells exchanged
    lineageCell1, lineageCell2, compared, comparedSwapped,
    \* --- splitMark on the mark tryMergeMarks returned: the two marks
    resplit,
    \* --- getOffsetInCellRange: arguments and result
    offsetLineage, offsetRevision, offsetId, offsetCount, offsetResult,
    \* --- which harness is running and how far it got
    pc

markVars == <<mark, length, splitResult, mergeResult>>
tableVars == <<srcQueries, dstQueries, isInvalidated, mapSrc, mapDst, returned,
               dependencies, earlierDependencies, calls>>
trackerVars == <<nodes, equivalences, failure, applied, reattached, queried,
                 applicable, trackerBefore, lastChange, changes, composable>>
cellVars == <<oldMarkCell, newMarkCell, oldChangeKnowledge, newChangeKnowledge,
              metadata, order, swappedOrder>>
otherVars == <<otherOldCell, otherNewCell, otherOldKnowledge, otherNewKnowledge,
               otherMetadata, otherOrder>>
rebasableVars == <<branchChange, targetChange, rebasable>>
mergeVars == <<lhsMark, rhsMark, mergedMark>>
settleVars == <<settleArg, settleRevision, settleMetadata, impactful, settled,
                resettled>>
renameVars == <<renameArg, renameChange, normalized>>
cloneVars == <<heap, sourceRef, cloneRef, sourceValue, mutatedSide>>
predicateVars == <<predicateArg, predicateRevision, facts>>
lineageVars == <<lineageCell1, lineageCell2, compared, comparedSwapped>>
offsetVars == <<offsetLineage, offsetRevision, offsetId, offsetCount,
                offsetResult>>
extraVars == <<cloneVars, predicateVars, lineageVars, resplit, offsetVars>>
checkVars == <<rebasableVars, mergeVars, settleVars, renameVars, extraVars>>
vars == <<cellVars, otherVars, markVars, tableVars, trackerVars, checkVars,
          pc>>

----------------------------------------------------------------------------
(* Bounds of the model *)

MaxLocalId == 1
MaxIndex == 1
MaxCount == 3
MaxRange == 2
MaxCalls == 2
MaxMarks == 2
MaxApplied == 3
MaxLineage == 2
MaxLaterCalls == 1
MaxOffset == 1

(* Sample values *)
Undef == "undefined"
Revisions == {"r1", "r2"}
OptRevisions == Revisions \cup {Undef}
LocalIds == 0..MaxLocalId
NoIndex == -1
Idle == "idle"

None == <<>>
Some(x) == <<x>>
IsSome(o) == Len(o) = 1
Val(o) == o[1]

----------------------------------------------------------------------------
(* ChangeAtomId and revision metadata *)

ChangeAtomIds == [revision : OptRevisions, localId : LocalIds]

areEqualChangeAtomIds(a, b) == a.revision = b.revision /\ a.localId = b.localId

\* RevisionMetadataSource.getIndex: a total order over the revisions in
\* scope, undefined (NoIndex) for a revision outside the window.
MetadataSources ==
    { md \in [Revisions -> {NoIndex} \cup (0..MaxIndex)] :
        \A r1, r2 \in Revisions :
            (r1 # r2 /\ md[r1] # NoIndex) => md[r1] # md[r2] }

getIndex(md, revision) == md[revision]

----------------------------------------------------------------------------
(* Cell ordering *)

SameCell == "SameCell"
OldThenNew == "OldThenNew"
NewThenOld == "NewThenOld"
CellOrder == {SameCell, OldThenNew, NewThenOld}
AssertInconsistent == "assert: Inconsistent cell ordering"
AssertOldRevision == "assert: Old mark cell should have a revision"
AssertInvalidScenario == "assert: Invalid cell ordering scenario"

\* Variants of the tie-break with a slip in them, used to show that the
\* properties below depend on the tie-break.
tieBreakOneIndexAlwaysNew(oldCell, newCell, md) ==
    IF newCell.revision = Undef THEN NewThenOld
    ELSE IF oldCell.revision = Undef THEN AssertOldRevision
    ELSE LET oldCellRevisionIndex == md[oldCell.revision]
             newCellRevisionIndex == md[newCell.revision]
         IN  IF newCellRevisionIndex # NoIndex /\ oldCellRevisionIndex # NoIndex
             THEN IF newCellRevisionIndex > oldCellRevisionIndex
                  THEN NewThenOld ELSE OldThenNew
             ELSE IF newCellRevisionIndex = NoIndex /\ oldCellRevisionIndex = NoIndex
             THEN AssertInvalidScenario
             ELSE NewThenOld

tieBreakOlderFirst(oldCell, newCell, md) ==
    IF newCell.revision = Undef THEN NewThenOld
    ELSE IF oldCell.revision = Undef THEN AssertOldRevision
    ELSE LET oldCellRevisionIndex == md[oldCell.revision]
             newCellRevisionIndex == md[newCell.revision]
         IN  IF newCellRevisionIndex # NoIndex /\ oldCellRevisionIndex # NoIndex
             THEN IF newCellRevisionIndex < oldCellRevisionIndex
                  THEN NewThenOld ELSE OldThenNew
             ELSE IF newCellRevisionIndex = NoIndex /\ oldCellRevisionIndex = NoIndex
             THEN AssertInvalidScenario
             ELSE IF oldCellRevisionIndex = NoIndex THEN NewThenOld ELSE OldThenNew

tieBreakByLocalId(oldCell, newCell, md) ==
    IF newCell.revision = Undef THEN NewThenOld
    ELSE IF oldCell.revision = Undef THEN AssertOldRevision
    ELSE LET oldCellRevisionIndex == md[oldCell.revision]
             newCellRevisionIndex == md[newCell.revision]
         IN  IF newCellRevisionIndex # NoIndex /\ oldCellRevisionIndex # NoIndex
             THEN IF newCellRevisionIndex + newCell.localId
                       > oldCellRevisionIndex + oldCell.localId
                  THEN NewThenOld ELSE OldThenNew
             ELSE IF newCellRevisionIndex = NoIndex /\ oldCellRevisionIndex = NoIndex
             THEN AssertInvalidScenario
             ELSE IF oldCellRevisionIndex = NoIndex THEN NewThenOld ELSE OldThenNew

\* The tie-break of the comparison ("merge left": the younger cell first).
tieBreakCellOrder(oldCell, newCell, md) ==
    IF newCell.revision = Undef THEN NewThenOld
    ELSE IF oldCell.revision = Undef THEN AssertOldRevision
    ELSE LET oldCellRevisionIndex == getIndex(md, oldCell.revision)
             newCellRevisionIndex == getIndex(md, newCell.revision)
         IN  IF newCellRevisionIndex # NoIndex /\ oldCellRevisionIndex # NoIndex
             THEN IF newCellRevisionIndex > oldCellRevisionIndex
                  THEN NewThenOld ELSE OldThenNew
             ELSE IF newCellRevisionIndex = NoIndex /\ oldCellRevisionIndex = NoIndex
             THEN AssertInvalidScenario
             ELSE IF oldCellRevisionIndex = NoIndex THEN NewThenOld ELSE OldThenNew

\* Variants of the comparison with a slip in the tombstone-knowledge part.
compareKnowledgeResultsExchanged(oldCell, newCell, oldKnowledge, newKnowledge, md) ==
    IF areEqualChangeAtomIds(oldCell, newCell) THEN SameCell
    ELSE LET oldChangeKnowsOfNewMarkCellRevision == newCell.revision \in oldKnowledge
             newChangeKnowsOfOldMarkCellRevision == oldCell.revision \in newKnowledge
         IN  IF oldChangeKnowsOfNewMarkCellRevision /\ newChangeKnowsOfOldMarkCellRevision
             THEN AssertInconsistent
             ELSE IF newChangeKnowsOfOldMarkCellRevision THEN OldThenNew
             ELSE IF oldChangeKnowsOfNewMarkCellRevision THEN NewThenOld
             ELSE tieBreakCellOrder(oldCell, newCell, md)

compareWithoutConsistencyAssert(oldCell, newCell, oldKnowledge, newKnowledge, md) ==
    IF areEqualChangeAtomIds(oldCell, newCell) THEN SameCell
    ELSE LET oldChangeKnowsOfNewMarkCellRevision == newCell.revision \in oldKnowledge
             newChangeKnowsOfOldMarkCellRevision == oldCell.revision \in newKnowledge
         IN  IF newChangeKnowsOfOldMarkCellRevision THEN NewThenOld
             ELSE IF oldChangeKnowsOfNewMarkCellRevision THEN OldThenNew
             ELSE tieBreakCellOrder(oldCell, newCell, md)

compareCellPositionsUsingTombstones(oldCell, newCell, oldKnowledge, newKnowledge, md) ==
    IF areEqualChangeAtomIds(oldCell, newCell) THEN SameCell
    ELSE LET oldChangeKnowsOfNewMarkCellRevision == newCell.revision \in oldKnowledge
             newChangeKnowsOfOldMarkCellRevision == oldCell.revision \in newKnowledge
         IN  IF oldChangeKnowsOfNewMarkCellRevision /\ newChangeKnowsOfOldMarkCellRevision
             THEN AssertInconsistent
             ELSE IF newChangeKnowsOfOldMarkCellRevision THEN NewThenOld
             ELSE IF oldChangeKnowsOfNewMarkCellRevision THEN OldThenNew
             ELSE tieBreakCellOrder(oldCell, newCell, md)

----------------------------------------------------------------------------
(* Harness for the cell comparison: the arguments are drawn in the initial *)
(* state, Compare makes the call, CompareSwapped makes the call with the   *)
(* two cells and the two knowledge sets exchanged.                         *)

OtherIdle ==
    /\ otherOldCell = Idle /\ otherNewCell = Idle
    /\ otherOldKnowledge = {} /\ otherNewKnowledge = {}
    /\ otherMetadata = Idle /\ otherOrder = Idle

CellArgs ==
    /\ oldMarkCell \in ChangeAtomIds
    /\ newMarkCell \in ChangeAtomIds
    /\ oldChangeKnowledge \in SUBSET OptRevisions
    /\ newChangeKnowledge \in SUBSET OptRevisions
    /\ metadata \in MetadataSources
    /\ order = Idle
    /\ swappedOrder = Idle

MarksIdle ==
    mark = Idle /\ length = 0 /\ splitResult = Idle /\ mergeResult = Idle

TableIdle ==
    /\ srcQueries = Idle /\ dstQueries = Idle /\ isInvalidated = FALSE
    /\ mapSrc = Idle /\ mapDst = Idle /\ returned = Idle
    /\ dependencies = Idle /\ earlierDependencies = Idle /\ calls = 0

TrackerIdle ==
    /\ nodes = <<>> /\ equivalences = <<>> /\ failure = Idle /\ applied = 0
    /\ reattached = {} /\ queried = {} /\ applicable = None
    /\ trackerBefore = None /\ lastChange = None
    /\ changes = <<>> /\ composable = Idle

RebasableIdle ==
    branchChange = <<>> /\ targetChange = <<>> /\ rebasable = Idle

MergeIdle ==
    lhsMark = Idle /\ rhsMark = Idle /\ mergedMark = Idle

SettleIdle ==
    /\ settleArg = Idle /\ settleRevision = Idle /\ settleMetadata = None
    /\ impactful = Idle /\ settled = None /\ resettled = None

RenameIdle ==
    renameArg = Idle /\ renameChange = Idle /\ normalized = None

CloneIdle ==
    /\ heap = <<>> /\ sourceRef = 0 /\ cloneRef = 0 /\ sourceValue = Idle
    /\ mutatedSide = Idle

PredicatesIdle ==
    predicateArg = Idle /\ predicateRevision = Idle /\ facts = None

LineagesIdle ==
    /\ lineageCell1 = Idle /\ lineageCell2 = Idle
    /\ compared = None /\ comparedSwapped = None

OffsetIdle ==
    /\ offsetLineage = None /\ offsetRevision = Idle /\ offsetId = 0
    /\ offsetCount = 0 /\ offsetResult = None

ExtraIdle ==
    /\ CloneIdle
    /\ PredicatesIdle
    /\ LineagesIdle
    /\ resplit = None
    /\ OffsetIdle

ChecksIdle ==
    /\ RebasableIdle
    /\ MergeIdle
    /\ SettleIdle
    /\ RenameIdle
    /\ ExtraIdle

InitCells ==
    /\ CellArgs
    /\ OtherIdle
    /\ ChecksIdle
    /\ MarksIdle
    /\ TableIdle
    /\ TrackerIdle
    /\ pc = "cells"

Compare ==
    /\ pc = "cells"
    /\ order' = compareCellPositionsUsingTombstones(
                    oldMarkCell, newMarkCell,
                    oldChangeKnowledge, newChangeKnowledge, metadata)
    /\ pc' = "compared"
    /\ UNCHANGED <<checkVars, oldMarkCell, newMarkCell, oldChangeKnowledge,
                   newChangeKnowledge, metadata, swappedOrder, otherVars,
                   trackerVars,
                   markVars, tableVars>>

CompareSwapped ==
    /\ pc = "compared"
    /\ swappedOrder' = compareCellPositionsUsingTombstones(
                           newMarkCell, oldMarkCell,
                           newChangeKnowledge, oldChangeKnowledge, metadata)
    /\ pc' = "swapped"
    /\ UNCHANGED <<checkVars, oldMarkCell, newMarkCell, oldChangeKnowledge,
                   newChangeKnowledge, metadata, order, otherVars, markVars,
                   trackerVars,
                   tableVars>>

NextCells == Compare \/ CompareSwapped

SpecCells == InitCells /\ [][NextCells]_vars

(* The same comparison made a second time, on another client, with        *)
(* arguments that agree with the first ones on what may decide the order:  *)
(* the revisions of the two cells, whether each knowledge set holds the    *)
(* other cell's revision, and the relative order of the two revisions in   *)
(* the metadata. The other client differs from this one in one respect at  *)
(* a time (localIds, metadata numbering, or the rest of the knowledge      *)
(* sets); any two agreeing argument lists are linked by three such steps.  *)

SameRelativeOrder(md1, md2, rev1, rev2) ==
    LET i1(md) == IF rev1 = Undef THEN NoIndex ELSE md[rev1]
        i2(md) == IF rev2 = Undef THEN NoIndex ELSE md[rev2]
    IN  /\ (i1(md1) = NoIndex) <=> (i1(md2) = NoIndex)
        /\ (i2(md1) = NoIndex) <=> (i2(md2) = NoIndex)
        /\ (i1(md1) < i2(md1)) <=> (i1(md2) < i2(md2))
        /\ (i1(md1) = i2(md1)) <=> (i1(md2) = i2(md2))

AgreeOnOrderEvidence(oCell, nCell, oKnowledge, nKnowledge, md) ==
    /\ oCell.revision = oldMarkCell.revision
    /\ nCell.revision = newMarkCell.revision
    /\ ~areEqualChangeAtomIds(oCell, nCell)
    /\ (newMarkCell.revision \in oKnowledge)
          <=> (newMarkCell.revision \in oldChangeKnowledge)
    /\ (oldMarkCell.revision \in nKnowledge)
          <=> (oldMarkCell.revision \in newChangeKnowledge)
    /\ SameRelativeOrder(metadata, md, oldMarkCell.revision, newMarkCell.revision)

OtherClientCompares(oCell, nCell, oKnowledge, nKnowledge, md) ==
    /\ AgreeOnOrderEvidence(oCell, nCell, oKnowledge, nKnowledge, md)
    /\ otherOldCell' = oCell
    /\ otherNewCell' = nCell
    /\ otherOldKnowledge' = oKnowledge
    /\ otherNewKnowledge' = nKnowledge
    /\ otherMetadata' = md
    /\ otherOrder' = compareCellPositionsUsingTombstones(
                         oCell, nCell, oKnowledge, nKnowledge, md)

CompareOnOtherClient ==
    /\ pc = "compared"
    /\ ~areEqualChangeAtomIds(oldMarkCell, newMarkCell)
    /\ \/ \E oCell, nCell \in ChangeAtomIds :
             OtherClientCompares(oCell, nCell, oldChangeKnowledge,
                                 newChangeKnowledge, metadata)
       \/ \E md \in MetadataSources :
             OtherClientCompares(oldMarkCell, newMarkCell, oldChangeKnowledge,
                                 newChangeKnowledge, md)
       \/ \E oKnowledge, nKnowledge \in SUBSET OptRevisions :
             OtherClientCompares(oldMarkCell, newMarkCell, oKnowledge,
                                 nKnowledge, metadata)
    /\ pc' = "other"
    /\ UNCHANGED <<checkVars, cellVars, markVars, tableVars, trackerVars>>

NextCellPairs == Compare \/ CompareOnOtherClient

SpecCellPairs == InitCells /\ [][NextCellPairs]_vars

----------------------------------------------------------------------------
(* Properties of the cell comparison *)

Returned(o) == o \in CellOrder
Opposite(o) == IF o = OldThenNew THEN NewThenOld
               ELSE IF o = NewThenOld THEN OldThenNew ELSE o
SameCells == areEqualChangeAtomIds(oldMarkCell, newMarkCell)
OldKnowsNew == newMarkCell.revision \in oldChangeKnowledge
NewKnowsOld == oldMarkCell.revision \in newChangeKnowledge
TieBreakCase == ~SameCells /\ ~OldKnowsNew /\ ~NewKnowsOld
\* The index the metadata gives to a cell's revision, if it has one.
Indexed(cell) == cell.revision # Undef /\ metadata[cell.revision] # NoIndex
IndexOf(cell) == metadata[cell.revision]
\* What the callers guarantee: each knowledge set is computed from the marks
\* of the changeset its cell comes from (cellSourcesFromMarks), so it holds
\* that cell's revision.
KnowledgeCoversOwnCells ==
    /\ oldMarkCell.revision \in oldChangeKnowledge
    /\ newMarkCell.revision \in newChangeKnowledge

\* C2 as stated: whenever the comparison returns an order, the comparison
\* with the cells and the knowledge sets swapped returns the opposite order,
\* and both return SameCell iff the cells have the same revision and localId.
\* (Stated here for arguments that meet the callers' guarantee only.)
C2_AntisymmetryAsStated ==
    (pc = "swapped" /\ Returned(order) /\ KnowledgeCoversOwnCells) =>
        /\ swappedOrder = Opposite(order)
        /\ (order = SameCell /\ swappedOrder = SameCell) <=> SameCells

\* C2 as amended: the swapped comparison returns the opposite order when the
\* order is decided by tombstone knowledge, or when both cells have a
\* revision and the two revisions differ; SameCell is returned, by both
\* calls, iff the cells have the same revision and localId. (Otherwise the
\* tie-break is not antisymmetric: two cells without revision, or of one
\* revision, get the same order both ways, and a new cell without revision
\* makes the swapped call fail an assertion.)
C2_Antisymmetry ==
    (pc = "swapped" /\ Returned(order)) =>
        /\ (order = SameCell) <=> SameCells
        /\ (swappedOrder = SameCell) <=> SameCells
        /\ ( \/ SameCells
             \/ OldKnowsNew \/ NewKnowsOld
             \/ /\ oldMarkCell.revision # Undef
                /\ newMarkCell.revision # Undef
                /\ oldMarkCell.revision # newMarkCell.revision )
           => swappedOrder = Opposite(order)

C2_Witness ==
    /\ pc = "swapped" /\ TieBreakCase
    /\ Indexed(oldMarkCell) /\ ~Indexed(newMarkCell)
    /\ newMarkCell.revision # Undef
    /\ order = OldThenNew /\ swappedOrder = NewThenOld

\* C3 as stated: in the tie-break case the result is NewThenOld if the new
\* cell has no revision; otherwise the higher index sorts first when both
\* revisions are indexed, the indexed cell sorts first when exactly one is,
\* and the call fails an assertion when neither is.
\* (Stated here for arguments that meet the callers' guarantee only.)
C3_TieBreakAsStated ==
    (pc = "compared" /\ TieBreakCase /\ KnowledgeCoversOwnCells) =>
        IF newMarkCell.revision = Undef THEN order = NewThenOld
        ELSE /\ (Indexed(oldMarkCell) /\ Indexed(newMarkCell)) =>
                    /\ IndexOf(newMarkCell) > IndexOf(oldMarkCell) => order = NewThenOld
                    /\ IndexOf(oldMarkCell) > IndexOf(newMarkCell) => order = OldThenNew
             /\ (Indexed(newMarkCell) /\ ~Indexed(oldMarkCell)) => order = NewThenOld
             /\ (Indexed(oldMarkCell) /\ ~Indexed(newMarkCell)) => order = OldThenNew
             /\ (~Indexed(oldMarkCell) /\ ~Indexed(newMarkCell)) => ~Returned(order)

\* C3 as amended: as stated, except that when the new cell has a revision
\* and the old cell has none the call fails the assertion "Old mark cell
\* should have a revision", whatever the metadata holds; the three cases on
\* the indices apply when both cells have a revision.
C3_TieBreak ==
    (pc = "compared" /\ TieBreakCase) =>
        IF newMarkCell.revision = Undef THEN order = NewThenOld
        ELSE IF oldMarkCell.revision = Undef THEN order = AssertOldRevision
        ELSE /\ (Indexed(oldMarkCell) /\ Indexed(newMarkCell)) =>
                    /\ IndexOf(newMarkCell) > IndexOf(oldMarkCell) => order = NewThenOld
                    /\ IndexOf(oldMarkCell) > IndexOf(newMarkCell) => order = OldThenNew
             /\ (Indexed(newMarkCell) /\ ~Indexed(oldMarkCell)) => order = NewThenOld
             /\ (Indexed(oldMarkCell) /\ ~Indexed(newMarkCell)) => order = OldThenNew
             /\ (~Indexed(oldMarkCell) /\ ~Indexed(newMarkCell))
                    => order = AssertInvalidScenario

C3_Witness ==
    /\ pc = "compared" /\ TieBreakCase
    /\ Indexed(oldMarkCell) /\ Indexed(newMarkCell)
    /\ IndexOf(oldMarkCell) > IndexOf(newMarkCell)
    /\ order = OldThenNew

\* C4: for two distinct cells, if only the new changeset knows the old
\* cell's revision the result is NewThenOld, if only the old changeset knows
\* the new cell's revision it is OldThenNew, whatever the metadata is.
C4_KnowledgeOrder ==
    (pc = "compared" /\ ~SameCells) =>
        /\ (NewKnowsOld /\ ~OldKnowsNew) => order = NewThenOld
        /\ (OldKnowsNew /\ ~NewKnowsOld) => order = OldThenNew

\* Knowledge decides against what the tie-break would have said.
C4_Witness ==
    /\ pc = "compared" /\ ~SameCells
    /\ OldKnowsNew /\ ~NewKnowsOld
    /\ Indexed(oldMarkCell) /\ Indexed(newMarkCell)
    /\ IndexOf(newMarkCell) > IndexOf(oldMarkCell)
    /\ order = OldThenNew

\* C5: two different cells of which each changeset knows the other's
\* revision fail the "Inconsistent cell ordering" assertion, and the same
\* cell compared with itself gives SameCell, whatever the knowledge sets
\* and the metadata are.
C5_ContradictionIsFatal ==
    pc = "compared" =>
        /\ SameCells => order = SameCell
        /\ (~SameCells /\ OldKnowsNew /\ NewKnowsOld) => order = AssertInconsistent

C5_Witness ==
    /\ pc = "compared" /\ ~SameCells /\ OldKnowsNew /\ NewKnowsOld
    /\ order = AssertInconsistent

\* C6: two comparisons of distinct cells that agree on the cells' revisions,
\* on whether each knowledge set holds the other cell's revision and on the
\* relative order of the two revisions in the metadata have the same
\* outcome, whatever the localIds and the index values are.
C6_OrderIsPositionIndependent ==
    pc = "other" => otherOrder = order

C6_Witness ==
    /\ pc = "other"
    /\ otherOldCell.localId = newMarkCell.localId
    /\ otherNewCell.localId = oldMarkCell.localId
    /\ oldMarkCell.revision = newMarkCell.revision
    /\ TieBreakCase
    /\ Returned(order) /\ otherOrder = order

----------------------------------------------------------------------------
(* Marks.                                                                  *)
(* A mark is a record with every field of the Mark union; a field that is  *)
(* absent in the TypeScript object holds NoType's companion value: Undef   *)
(* for revision, NoId for id, NoChanges for changes, None for the object-  *)
(* valued fields. The mark effect is part of the mark record (as in the    *)
(* source, where a Mark is the intersection of the effect and the mark     *)
(* fields); the sub-effects of an AttachAndDetach carry the effect fields. *)

NoopMarkType == "NoOp"
NoId == -1
NoChanges == "none"

LineageEvents == {[revision |-> "r2", id |-> 0, count |-> 2, offset |-> 1]}
IdRanges == {[id |-> 0, count |-> 2]}

CellIds ==
    { c \in [revision : OptRevisions, localId : LocalIds,
             lineage : {None} \cup {Some(<<e>>) : e \in LineageEvents},
             adjacentCells : {None} \cup {Some(<<r>>) : r \in IdRanges}] :
        ~(IsSome(c.lineage) /\ IsSome(c.adjacentCells)) }

MarkRevisions == {Undef, "r1"}
Endpoints == {None, Some([revision |-> "r1", localId |-> 0])}
IdOverrides ==
    {None,
     Some([type |-> "Redetach",
           id |-> [revision |-> "r2", localId |-> 0,
                   lineage |-> None, adjacentCells |-> None]])}

Effect(type, revision, id, idOverride, finalEndpoint, attach, detach) ==
    [type |-> type, revision |-> revision, id |-> id, idOverride |-> idOverride,
     finalEndpoint |-> finalEndpoint, attach |-> attach, detach |-> detach]

InsertEffects ==
    {Effect("Insert", r, i, None, None, None, None) :
        r \in MarkRevisions, i \in LocalIds}
MoveInEffects ==
    {Effect("MoveIn", x[1], x[2], None, x[3], None, None) :
        x \in MarkRevisions \X LocalIds \X Endpoints}
DeleteEffects ==
    {Effect("Delete", x[1], x[2], x[3], None, None, None) :
        x \in MarkRevisions \X LocalIds \X IdOverrides}
MoveOutEffects ==
    {Effect("MoveOut", x[1], x[2], x[3], x[4], None, None) :
        x \in MarkRevisions \X LocalIds \X IdOverrides \X Endpoints}
\* The sub-effects of the AttachAndDetach marks of the model.
SubAttaches == InsertEffects \cup {e \in MoveInEffects : e.finalEndpoint = None}
SubDetaches == DeleteEffects \cup {e \in MoveOutEffects : e.idOverride = None}
AttachAndDetachEffects ==
    {Effect("AttachAndDetach", Undef, NoId, None, None, Some(x[1]), Some(x[2])) :
        x \in SubAttaches \X SubDetaches}
NoopEffects == {Effect(NoopMarkType, Undef, NoId, None, None, None, None)}

MarkEffects ==
    NoopEffects \cup InsertEffects \cup MoveInEffects \cup DeleteEffects
        \cup MoveOutEffects \cup AttachAndDetachEffects

\* A mark: the effect plus count, cellId, changes and vestigialEndpoint.
Mark(effect, count, cellId, nodeChanges, vestigialEndpoint) ==
    [type |-> effect.type, revision |-> effect.revision, id |-> effect.id,
     idOverride |-> effect.idOverride, finalEndpoint |-> effect.finalEndpoint,
     attach |-> effect.attach, detach |-> effect.detach,
     count |-> count, cellId |-> cellId, changes |-> nodeChanges,
     vestigialEndpoint |-> vestigialEndpoint]

\* The marks the model draws. An AttachAndDetach and a MoveIn have a cellId
\* (assertions 0x823 and 0x825) and a MoveIn has no nested changes (0x6a7).
IsValidMark(m) ==
    /\ m.count >= 1
    /\ m.type \in {"AttachAndDetach", "MoveIn"} => IsSome(m.cellId)
    /\ m.type = "MoveIn" => m.changes = NoChanges

Marks ==
    { m \in { Mark(x[1], x[2], x[3], x[4], x[5]) :
                x \in MarkEffects \X (1..MaxCount)
                        \X ({None} \cup {Some(c) : c \in CellIds})
                        \X {NoChanges, "c1"} \X Endpoints } :
        IsValidMark(m) }

isVestigialEndpoint(m) == IsSome(m.vestigialEndpoint)
isAttach(effect) == effect.type \in {"Insert", "MoveIn"}
isDetach(effect) == effect.type \in {"Delete", "MoveOut"}
isAttachAndDetachEffect(effect) == effect.type = "AttachAndDetach"

areSameLineage(lineage1, lineage2) ==
    IF lineage1 = None /\ lineage2 = None THEN TRUE
    ELSE IF lineage1 = None \/ lineage2 = None THEN FALSE
    ELSE IF Len(Val(lineage1)) # Len(Val(lineage2)) THEN FALSE
    ELSE \A i \in 1..Len(Val(lineage1)) :
            /\ Val(lineage1)[i].revision = Val(lineage2)[i].revision
            /\ Val(lineage1)[i].offset = Val(lineage2)[i].offset

areAdjacentIdRanges(firstStart, firstLength, secondStart) ==
    firstStart + firstLength = secondStart

\* lhs and rhs are optional ChangeAtomIds.
areMergeableChangeAtoms(lhs, lhsCount, rhs) ==
    IF lhs = None \/ rhs = None THEN lhs = None /\ rhs = None
    ELSE /\ Val(lhs).revision = Val(rhs).revision
         /\ areAdjacentIdRanges(Val(lhs).localId, lhsCount, Val(rhs).localId)

\* lhs?.lineage
LineageOf(optCellId) == IF optCellId = None THEN None ELSE Val(optCellId).lineage

areMergeableCellIds(lhs, lhsCount, rhs) ==
    /\ areMergeableChangeAtoms(lhs, lhsCount, rhs)
    /\ areSameLineage(LineageOf(lhs), LineageOf(rhs))

haveMergeableIdOverrides(lhs, lhsCount, rhs) ==
    IF IsSome(lhs.idOverride) /\ IsSome(rhs.idOverride)
    THEN /\ Val(lhs.idOverride).type = Val(rhs.idOverride).type
         /\ areMergeableCellIds(Some(Val(lhs.idOverride).id), lhsCount,
                                Some(Val(rhs.idOverride).id))
    ELSE (lhs.idOverride = None) <=> (rhs.idOverride = None)

splitDetachEvent(detachEvent, len) ==
    [detachEvent EXCEPT !.localId = @ + len]

\* splitDetachEvent applied to an optional field that is present.
SplitIfSome(opt, len) ==
    IF IsSome(opt) THEN Some(splitDetachEvent(Val(opt), len)) ELSE opt

SplitOverrideIfSome(opt, len) ==
    IF IsSome(opt)
    THEN Some([Val(opt) EXCEPT !.id = splitDetachEvent(@, len)])
    ELSE opt

\* A split of an effect that gives the second effect the ids of the first.
splitMarkEffectKeepingIds(effect, len) == <<effect, effect>>

RECURSIVE splitMarkEffect(_, _)
splitMarkEffect(effect, len) ==
    CASE effect.type = NoopMarkType -> <<effect, effect>>
      [] effect.type = "Insert" ->
            <<effect, [effect EXCEPT !.id = @ + len]>>
      [] effect.type = "MoveIn" ->
            <<effect, [effect EXCEPT !.id = @ + len,
                                     !.finalEndpoint = SplitIfSome(@, len)]>>
      [] effect.type = "Delete" ->
            <<effect, [effect EXCEPT !.id = @ + len,
                                     !.idOverride = SplitOverrideIfSome(@, len)]>>
      [] effect.type = "MoveOut" ->
            <<effect, [effect EXCEPT !.id = @ + len,
                                     !.idOverride = SplitOverrideIfSome(@, len),
                                     !.finalEndpoint = SplitIfSome(@, len)]>>
      [] effect.type = "AttachAndDetach" ->
            LET attach == splitMarkEffect(Val(effect.attach), len)
                detach == splitMarkEffect(Val(effect.detach), len)
            IN  <<[effect EXCEPT !.attach = Some(attach[1]),
                                 !.detach = Some(detach[1])],
                  [effect EXCEPT !.attach = Some(attach[2]),
                                 !.detach = Some(detach[2])]>>

SplitFailure == "fail: Unable to split mark due to lengths"

\* A split that gives the first mark the remainder and the second mark
\* the length asked for.
splitMarkHeadOfRemainder(m, len) ==
    LET remainder == m.count - len
    IN  IF len < 1 \/ remainder < 1 THEN SplitFailure
        ELSE LET effects == splitMarkEffect(m, len)
                 mark1 == [effects[1] EXCEPT !.count = remainder]
                 mark2 == [effects[2] EXCEPT
                              !.count = len,
                              !.cellId = SplitIfSome(@, len),
                              !.vestigialEndpoint = SplitIfSome(@, len)]
             IN  <<mark1, mark2>>

\* A split whose second mark has no cellId.
splitMarkDroppingTailCell(m, len) ==
    LET remainder == m.count - len
    IN  IF len < 1 \/ remainder < 1 THEN SplitFailure
        ELSE LET effects == splitMarkEffect(m, len)
                 mark1 == [effects[1] EXCEPT !.count = len]
                 mark2 == [effects[2] EXCEPT
                              !.count = remainder,
                              !.cellId = None,
                              !.vestigialEndpoint = SplitIfSome(@, len)]
             IN  <<mark1, mark2>>

\* A split that leaves the cellId of the second mark where it was.
splitMarkKeepingTailCell(m, len) ==
    LET remainder == m.count - len
    IN  IF len < 1 \/ remainder < 1 THEN SplitFailure
        ELSE LET effects == splitMarkEffect(m, len)
                 mark1 == [effects[1] EXCEPT !.count = len]
                 mark2 == [effects[2] EXCEPT
                              !.count = remainder,
                              !.vestigialEndpoint = SplitIfSome(@, len)]
             IN  <<mark1, mark2>>

splitMark(m, len) ==
    LET remainder == m.count - len
    IN  IF len < 1 \/ remainder < 1 THEN SplitFailure
        ELSE LET effects == splitMarkEffect(m, len)
                 mark1 == [effects[1] EXCEPT !.count = len]
                 mark2 == [effects[2] EXCEPT
                              !.count = remainder,
                              !.cellId = SplitIfSome(@, len),
                              !.vestigialEndpoint = SplitIfSome(@, len)]
             IN  <<mark1, mark2>>

\* Returns None for undefined, Some(effect) otherwise.
RECURSIVE tryMergeEffects(_, _, _)
tryMergeEffects(lhs, rhs, lhsCount) ==
    IF lhs.type # rhs.type THEN None
    ELSE IF rhs.type = NoopMarkType THEN Some(lhs)
    ELSE IF rhs.type = "AttachAndDetach"
    THEN LET attach == tryMergeEffects(Val(lhs.attach), Val(rhs.attach), lhsCount)
             detach == tryMergeEffects(Val(lhs.detach), Val(rhs.detach), lhsCount)
         IN  IF attach = None \/ detach = None THEN None
             ELSE Some([lhs EXCEPT !.attach = attach, !.detach = detach])
    ELSE IF lhs.revision # rhs.revision THEN None
    ELSE IF isDetach(lhs) /\ isDetach(rhs)
            /\ ~haveMergeableIdOverrides(lhs, lhsCount, rhs) THEN None
    ELSE CASE rhs.type = "MoveIn" ->
                IF /\ lhs.id + lhsCount = rhs.id
                   /\ areMergeableChangeAtoms(lhs.finalEndpoint, lhsCount,
                                              rhs.finalEndpoint)
                THEN Some(lhs) ELSE None
           [] rhs.type = "Delete" ->
                IF /\ lhs.id + lhsCount = rhs.id
                   /\ haveMergeableIdOverrides(lhs, lhsCount, rhs)
                THEN Some(lhs) ELSE None
           [] rhs.type = "MoveOut" ->
                IF /\ lhs.id + lhsCount = rhs.id
                   /\ haveMergeableIdOverrides(lhs, lhsCount, rhs)
                   /\ areMergeableChangeAtoms(lhs.finalEndpoint, lhsCount,
                                              rhs.finalEndpoint)
                THEN Some(lhs) ELSE None
           [] rhs.type = "Insert" ->
                IF lhs.id + lhsCount = rhs.id THEN Some(lhs) ELSE None

\* Returns None for undefined, Some(mark) otherwise.
\* A tryMergeMarks that does not look at the nested changes.
tryMergeMarksIgnoringChanges(lhs, rhs) ==
    IF rhs.type # lhs.type THEN None
    ELSE IF ~areMergeableCellIds(lhs.cellId, lhs.count, rhs.cellId) THEN None
    ELSE IF isVestigialEndpoint(lhs) /\ ~isVestigialEndpoint(rhs) THEN None
    ELSE IF isVestigialEndpoint(lhs)
            /\ ~areMergeableChangeAtoms(lhs.vestigialEndpoint, lhs.count,
                                        rhs.vestigialEndpoint) THEN None
    ELSE IF ~isVestigialEndpoint(lhs) /\ isVestigialEndpoint(rhs) THEN None
    ELSE LET mergedEffect == tryMergeEffects(lhs, rhs, lhs.count)
         IN  IF mergedEffect = None THEN None
             ELSE Some([Val(mergedEffect) EXCEPT !.count = lhs.count + rhs.count])

tryMergeMarks(lhs, rhs) ==
    IF rhs.type # lhs.type THEN None
    ELSE IF ~areMergeableCellIds(lhs.cellId, lhs.count, rhs.cellId) THEN None
    ELSE IF rhs.changes # NoChanges \/ lhs.changes # NoChanges THEN None
    ELSE IF isVestigialEndpoint(lhs) /\ ~isVestigialEndpoint(rhs) THEN None
    ELSE IF isVestigialEndpoint(lhs)
            /\ ~areMergeableChangeAtoms(lhs.vestigialEndpoint, lhs.count,
                                        rhs.vestigialEndpoint) THEN None
    ELSE IF ~isVestigialEndpoint(lhs) /\ isVestigialEndpoint(rhs) THEN None
    ELSE LET mergedEffect == tryMergeEffects(lhs, rhs, lhs.count)
         IN  IF mergedEffect = None THEN None
             ELSE Some([Val(mergedEffect) EXCEPT !.count = lhs.count + rhs.count])

----------------------------------------------------------------------------
(* Harness for the mark algebra: a mark and a split length are drawn in    *)
(* the initial state, Split calls splitMark, Merge calls tryMergeMarks on  *)
(* the two marks of a split that succeeded.                                *)

InitMarks ==
    /\ mark \in Marks
    /\ length \in 0..MaxCount
    /\ splitResult = Idle
    /\ mergeResult = Idle
    /\ oldMarkCell = Idle /\ newMarkCell = Idle
    /\ oldChangeKnowledge = {} /\ newChangeKnowledge = {}
    /\ metadata = Idle /\ order = Idle /\ swappedOrder = Idle
    /\ OtherIdle
    /\ ChecksIdle
    /\ TableIdle
    /\ TrackerIdle
    /\ pc = "marks"

Split ==
    /\ pc = "marks"
    /\ splitResult' = splitMark(mark, length)
    /\ pc' = "split"
    /\ UNCHANGED <<checkVars, mark, length, mergeResult, cellVars, otherVars,
                   tableVars, trackerVars>>

Merge ==
    /\ pc = "split"
    /\ splitResult # SplitFailure
    /\ mergeResult' = tryMergeMarks(splitResult[1], splitResult[2])
    /\ pc' = "merged"
    /\ UNCHANGED <<checkVars, mark, length, splitResult, cellVars, otherVars,
                   tableVars, trackerVars>>

NextMarks == Split \/ Merge

SpecMarks == InitMarks /\ [][NextMarks]_vars

----------------------------------------------------------------------------
(* Properties of the mark algebra *)

\* C1 as stated: merging the two marks of any valid split of a valid mark
\* gives back a mark structurally equal to the one that was split.
C1_RoundTripAsStated ==
    pc = "merged" => mergeResult = Some(mark)

\* C1 as amended: the round trip holds for every valid mark that carries no
\* nested changes; a mark with nested changes splits into two marks that
\* both carry them, which tryMergeMarks refuses to merge (it returns
\* undefined).
C1_RoundTrip ==
    pc = "merged" =>
        IF mark.changes = NoChanges THEN mergeResult = Some(mark)
        ELSE mergeResult = None

C1_Witness ==
    /\ pc = "merged"
    /\ mark.type = "AttachAndDetach" /\ mark.count = 3 /\ length = 1
    /\ IsSome(mark.cellId) /\ IsSome(Val(mark.cellId).lineage)
    /\ IsSome(mark.vestigialEndpoint)
    /\ IsSome(Val(mark.detach).idOverride)
    /\ splitResult[2].count = 2
    /\ mergeResult = Some(mark)

\* C15: splitMark fails if and only if length < 1 or mark.count - length
\* < 1; otherwise the first mark has count length, the id and the cellId of
\* the mark, the second has count mark.count - length, its id (both ids of
\* an AttachAndDetach) is the id of the mark plus length, and its cellId,
\* where the mark has one, has the same revision and the localId plus
\* length.
C15_Split ==
    pc \in {"split", "merged"} =>
        IF length < 1 \/ mark.count - length < 1
        THEN splitResult = SplitFailure
        ELSE LET head == splitResult[1]
                 tail == splitResult[2]
             IN  /\ Len(splitResult) = 2
                 /\ head.count = length
                 /\ tail.count = mark.count - length
                 /\ head.id = mark.id /\ head.cellId = mark.cellId
                 /\ head.attach = mark.attach /\ head.detach = mark.detach
                 /\ (isAttach(mark) \/ isDetach(mark))
                        => tail.id = mark.id + length
                 /\ isAttachAndDetachEffect(mark)
                        => /\ Val(tail.attach).id = Val(mark.attach).id + length
                           /\ Val(tail.detach).id = Val(mark.detach).id + length
                 /\ IsSome(mark.cellId)
                        => /\ IsSome(tail.cellId)
                           /\ Val(tail.cellId).revision
                                 = Val(mark.cellId).revision
                           /\ Val(tail.cellId).localId
                                 = Val(mark.cellId).localId + length

\* An AttachAndDetach of three cells was split after the second.
C15_Witness ==
    /\ pc = "split" /\ length = 2 /\ mark.count = 3
    /\ isAttachAndDetachEffect(mark) /\ IsSome(mark.cellId)
    /\ splitResult[1].count = 2 /\ splitResult[2].count = 1
    /\ Val(splitResult[2].detach).id = Val(mark.detach).id + 2

----------------------------------------------------------------------------
(* RangeMap and the cross-field maps.                                      *)
(* A RangeMap is a list of entries {start, length, value} over disjoint    *)
(* key ranges, kept in key order; it is modelled as the set of its         *)
(* entries.                                                                *)

LastKey(entry) == entry.start + entry.length - 1

\* The first entry of the map that overlaps [start, start + len), or None.
getFromRangeMap(map, start, len) ==
    LET hits == {e \in map : e.start <= start + len - 1 /\ LastKey(e) >= start}
    IN  IF hits = {} THEN None
        ELSE Some(CHOOSE e \in hits : \A f \in hits : e.start <= f.start)

\* Stores value for [start, start + len): the parts of the older entries
\* that lie outside the range are kept.
setInRangeMap(map, start, len, value) ==
    LET end == start + len - 1
        before == {[e EXCEPT !.length = start - e.start] :
                     e \in {f \in map : f.start < start /\ LastKey(f) >= start}}
        after == {[e EXCEPT !.start = end + 1, !.length = LastKey(e) - end] :
                     e \in {f \in map : f.start <= end /\ LastKey(f) > end}}
        apart == {e \in map : LastKey(e) < start \/ e.start > end}
    IN  apart \cup before \cup after
            \cup {[start |-> start, length |-> len, value |-> value]}

\* map: a Map from revision to RangeMap, here a function on the revisions
\* whose value is the empty RangeMap where the Map has no entry.
setInCrossFieldMap(map, revision, id, count, value) ==
    [map EXCEPT ![revision] = setInRangeMap(@, id, count, value)]

addCrossFieldQuery(set, revision, id, count) ==
    setInCrossFieldMap(set, revision, id, count, TRUE)

----------------------------------------------------------------------------
(* CrossFieldTable *)

Source == "Source"
Destination == "Destination"
CrossFieldTargets == {Source, Destination}
MoveIds == {0, 1}
Ranges == 1..MaxRange
Values == {"v1", "v2"}
TableRevisions == {Undef, "r1"}
EmptyCrossFieldMap == [r \in TableRevisions |-> {}]

\* The fields get and set select by target, in a state given by its maps.
getMap(target, src, dst) == IF target = Source THEN src ELSE dst
getQueries(target, src, dst) == IF target = Source THEN src ELSE dst

\* What get returns.
tableGet(target, revision, id, count) ==
    getFromRangeMap(getMap(target, mapSrc, mapDst)[revision], id, count)

\* A set that looks for the earlier reads in the queries of the other target.
setInvalidatesOtherTarget(target, revision, id, count, invalidateDependents) ==
    /\ invalidateDependents
    /\ getFromRangeMap(getQueries(target, dstQueries, srcQueries)[revision],
                       id, count) # None

\* A set that invalidates whether or not it was asked to.
setInvalidatesAlways(target, revision, id, count, invalidateDependents) ==
    getFromRangeMap(getQueries(target, srcQueries, dstQueries)[revision],
                    id, count) # None

\* Whether set finds that it has to invalidate.
setInvalidates(target, revision, id, count, invalidateDependents) ==
    /\ invalidateDependents
    /\ getFromRangeMap(getQueries(target, srcQueries, dstQueries)[revision],
                       id, count) # None

\* The history kept beside the table: the keys read with addDependency
\* since the last reset, for each target and revision.
NoDependencies == [t \in CrossFieldTargets, r \in TableRevisions |-> {}]

InitTable ==
    /\ srcQueries = EmptyCrossFieldMap
    /\ dstQueries = EmptyCrossFieldMap
    /\ isInvalidated = FALSE
    /\ mapSrc = EmptyCrossFieldMap
    /\ mapDst = EmptyCrossFieldMap
    /\ returned = None
    /\ dependencies = NoDependencies
    /\ earlierDependencies = NoDependencies
    /\ calls = 0
    /\ oldMarkCell = Idle /\ newMarkCell = Idle
    /\ oldChangeKnowledge = {} /\ newChangeKnowledge = {}
    /\ metadata = Idle /\ order = Idle /\ swappedOrder = Idle
    /\ OtherIdle
    /\ ChecksIdle
    /\ MarksIdle
    /\ TrackerIdle
    /\ pc = "table"

Get(target, revision, id, count, addDependency) ==
    /\ pc = "table" /\ calls < MaxCalls
    /\ IF addDependency
       THEN /\ srcQueries' = IF target = Source
                             THEN addCrossFieldQuery(srcQueries, revision, id, count)
                             ELSE srcQueries
            /\ dstQueries' = IF target = Destination
                             THEN addCrossFieldQuery(dstQueries, revision, id, count)
                             ELSE dstQueries
            /\ dependencies' = [dependencies EXCEPT ![target, revision] =
                                    @ \cup (id..(id + count - 1))]
       ELSE UNCHANGED <<checkVars, srcQueries, dstQueries, dependencies>>
    /\ returned' = tableGet(target, revision, id, count)
    /\ calls' = calls + 1
    /\ UNCHANGED <<checkVars, isInvalidated, mapSrc, mapDst, earlierDependencies, pc,
                   cellVars, otherVars, markVars, trackerVars>>

\* A set that forgets an earlier invalidation.
SetForgettingInvalidation(target, revision, id, count, value, invalidateDependents) ==
    /\ pc = "table" /\ calls < MaxCalls
    /\ isInvalidated' =
          setInvalidates(target, revision, id, count, invalidateDependents)
    /\ mapSrc' = IF target = Source
                 THEN setInCrossFieldMap(mapSrc, revision, id, count, value)
                 ELSE mapSrc
    /\ mapDst' = IF target = Destination
                 THEN setInCrossFieldMap(mapDst, revision, id, count, value)
                 ELSE mapDst
    /\ calls' = calls + 1
    /\ UNCHANGED <<checkVars, srcQueries, dstQueries, returned, dependencies,
                   earlierDependencies, pc, cellVars, otherVars, markVars,
                   trackerVars>>

Set(target, revision, id, count, value, invalidateDependents) ==
    /\ pc = "table" /\ calls < MaxCalls
    /\ isInvalidated' =
          IF setInvalidates(target, revision, id, count, invalidateDependents)
          THEN TRUE ELSE isInvalidated
    /\ mapSrc' = IF target = Source
                 THEN setInCrossFieldMap(mapSrc, revision, id, count, value)
                 ELSE mapSrc
    /\ mapDst' = IF target = Destination
                 THEN setInCrossFieldMap(mapDst, revision, id, count, value)
                 ELSE mapDst
    /\ calls' = calls + 1
    /\ UNCHANGED <<checkVars, srcQueries, dstQueries, returned, dependencies,
                   earlierDependencies, pc, cellVars, otherVars, markVars,
                   trackerVars>>

\* A reset that keeps the queries.
resetKeepingQueries ==
    /\ isInvalidated' = FALSE
    /\ UNCHANGED <<checkVars, srcQueries, dstQueries>>

\* What reset does to the fields of the table.
resetFields ==
    /\ isInvalidated' = FALSE
    /\ srcQueries' = EmptyCrossFieldMap
    /\ dstQueries' = EmptyCrossFieldMap

Reset ==
    /\ pc = "table"
    /\ resetFields
    /\ dependencies' = NoDependencies
    /\ earlierDependencies' =
          [k \in DOMAIN dependencies |-> earlierDependencies[k] \cup dependencies[k]]
    /\ UNCHANGED <<checkVars, mapSrc, mapDst, returned, calls, pc, cellVars, otherVars,
                   markVars, trackerVars>>

NextTable ==
    \/ \E target \in CrossFieldTargets, revision \in TableRevisions,
          id \in MoveIds, count \in Ranges, addDependency \in BOOLEAN :
            Get(target, revision, id, count, addDependency)
    \/ \E target \in CrossFieldTargets, revision \in TableRevisions,
          id \in MoveIds, count \in Ranges, value \in Values,
          invalidateDependents \in BOOLEAN :
            Set(target, revision, id, count, value, invalidateDependents)
    \/ Reset

SpecTable == InitTable /\ [][NextTable]_vars

----------------------------------------------------------------------------
(* Properties of the CrossFieldTable *)

KeysOf(id, count) == id..(id + count - 1)
ReadSinceReset(target, revision, id, count) ==
    dependencies[target, revision] \cap KeysOf(id, count) # {}
ReadBeforeReset(target, revision, id, count) ==
    earlierDependencies[target, revision] \cap KeysOf(id, count) # {}
NoQueries ==
    \A revision \in TableRevisions :
        srcQueries[revision] = {} /\ dstQueries[revision] = {}

\* C7: a set makes isInvalidated true iff invalidateDependents is true and a
\* get with addDependency was made since the last reset on the same target
\* and revision with a range overlapping the one set; every other set leaves
\* isInvalidated as it was.
C7_Invalidation ==
    [][\A invalidateDependents \in BOOLEAN, target \in CrossFieldTargets,
          revision \in TableRevisions :
            \/ isInvalidated' = isInvalidated
               /\ (isInvalidated \/ ~invalidateDependents
                     \/ dependencies[target, revision] = {})
            \/ \A id \in MoveIds, count \in Ranges :
                 LET expected == IF invalidateDependents
                                    /\ ReadSinceReset(target, revision, id, count)
                                 THEN TRUE ELSE isInvalidated
                 IN  isInvalidated' # expected =>
                        \A value \in Values :
                            ~Set(target, revision, id, count, value,
                                 invalidateDependents)]_vars

\* A get of ids 0 and 1 with addDependency, then a set of id 1 alone.
C7_Witness ==
    /\ pc = "table" /\ calls = 2 /\ isInvalidated
    /\ dependencies[Source, "r1"] = {0, 1}
    /\ \A t \in CrossFieldTargets, r \in TableRevisions :
            <<t, r>> # <<Source, "r1">> => dependencies[t, r] = {}
    /\ mapSrc["r1"] = {[start |-> 1, length |-> 1, value |-> "v1"]}

\* C8: reset makes isInvalidated false and empties both query sets, leaves
\* the value maps as they were, so that every get returns after the reset
\* what it returned before it, and a set on a range that was read only
\* before the reset does not change isInvalidated.
C8_ResetFrame ==
    [][/\ Reset =>
            /\ isInvalidated' = FALSE
            /\ NoQueries'
            /\ mapSrc' = mapSrc /\ mapDst' = mapDst
            /\ \A target \in CrossFieldTargets, revision \in TableRevisions,
                  id \in MoveIds, count \in Ranges :
                    tableGet(target, revision, id, count)'
                        = tableGet(target, revision, id, count)
       /\ isInvalidated' # isInvalidated =>
            \A target \in CrossFieldTargets, revision \in TableRevisions,
               id \in MoveIds, count \in Ranges, value \in Values :
                ( /\ ReadBeforeReset(target, revision, id, count)
                  /\ ~ReadSinceReset(target, revision, id, count) )
                    => ~Set(target, revision, id, count, value, TRUE)]_vars

\* A get with addDependency, a reset, then a set of the range that was read.
C8_Witness ==
    /\ pc = "table" /\ calls = 2 /\ ~isInvalidated
    /\ earlierDependencies[Destination, Undef] = {0, 1}
    /\ dependencies = NoDependencies
    /\ NoQueries
    /\ mapDst[Undef] = {[start |-> 0, length |-> 2, value |-> "v2"]}

----------------------------------------------------------------------------
(* Attach predicates and cell emptiness of a mark *)

\* a ?? b on revision tags.
orElse(a, b) == IF a # Undef THEN a ELSE b

RECURSIVE isNewAttachEffect(_, _, _)
isNewAttachEffect(effect, cellId, revision) ==
    \/ /\ isAttach(effect)
       /\ IsSome(cellId)
       /\ orElse(effect.revision, revision) = orElse(Val(cellId).revision, revision)
    \/ /\ isAttachAndDetachEffect(effect)
       /\ isNewAttachEffect(Val(effect.attach), cellId, revision)

isReattachEffect(effect, cellId) ==
    isAttach(effect) /\ ~isNewAttachEffect(effect, cellId, Undef)

isActiveReattach(m) ==
    isAttach(m) /\ isReattachEffect(m, m.cellId) /\ IsSome(m.cellId)

areInputCellsEmpty(m) == IsSome(m.cellId)

areOutputCellsEmptyForDetachesOnly(m) ==
    m.type \in {"Delete", "MoveOut", "AttachAndDetach"}

areOutputCellsEmpty(m) ==
    CASE m.type = NoopMarkType -> IsSome(m.cellId)
      [] m.type \in {"Delete", "MoveOut", "AttachAndDetach"} -> TRUE
      [] m.type \in {"MoveIn", "Insert"} -> FALSE

getInputLength(m) == IF areInputCellsEmpty(m) THEN 0 ELSE m.count

markEmptiesCells(m) == ~areInputCellsEmpty(m) /\ areOutputCellsEmpty(m)

----------------------------------------------------------------------------
(* DetachedNodeTracker *)
(*                                                                         *)
(* The Map nodes is a sequence of entries [k, v] in insertion order, the   *)
(* order in which the code iterates over it; equivalences is the array.    *)

NoFailure == "none"
UnableToTrack == "Unable to track detached nodes"
OnlyDetachEmpties == "Only detach marks should empty cells"

Tracker(n, e, f) == [nodes |-> n, equivalences |-> e, failure |-> f]
FreshTracker == Tracker(<<>>, <<>>, NoFailure)

\* Map.prototype.set: the value of a key that is present is replaced where
\* the key stands, a new key goes to the end.
MapSet(map, k, v) ==
    IF \E i \in 1..Len(map) : map[i].k = k
    THEN [i \in 1..Len(map) |-> IF map[i].k = k THEN [k |-> k, v |-> v] ELSE map[i]]
    ELSE Append(map, [k |-> k, v |-> v])

\* A new Map filled by one set per entry, in order.
RECURSIVE MapSetAll(_, _, _)
MapSetAll(map, entries, i) ==
    IF i > Len(entries) THEN map
    ELSE MapSetAll(MapSet(map, entries[i].k, entries[i].v), entries, i + 1)

CellOf(revision, localId) == [revision |-> revision, localId |-> localId]


\* apply, first loop, one mark that empties cells: the tracked nodes of the
\* emptied range are removed and recorded as equivalences, the nodes after
\* the range move down.
applyDetach(tracker, change, m, index) ==
    LET inputLength == getInputLength(m)
        after == index + inputLength
        Removed(e) == e.k >= index /\ e.k < after
        Kept(e) == ~Removed(e)
        removed == SelectSeq(tracker.nodes, Removed)
        kept == SelectSeq(tracker.nodes, Kept)
        revision == orElse(change.rollbackOf,
                           orElse(m.revision, change.revision))
        moved == [i \in 1..Len(kept) |->
                    IF kept[i].k >= after
                    THEN [k |-> kept[i].k - inputLength, v |-> kept[i].v]
                    ELSE kept[i]]
        pushed == [i \in 1..Len(removed) |->
                    [old |-> removed[i].v,
                     new |-> CellOf(revision, m.id + (removed[i].k - index))]]
    IN  IF ~isDetach(m)
        THEN Tracker(tracker.nodes, tracker.equivalences, OnlyDetachEmpties)
        ELSE IF Len(removed) > 0 /\ revision = Undef
        THEN Tracker(tracker.nodes, tracker.equivalences, UnableToTrack)
        ELSE Tracker(MapSetAll(<<>>, moved, 1),
                     tracker.equivalences \o pushed, NoFailure)

RECURSIVE applyDetaches(_, _, _, _)
applyDetaches(tracker, change, i, index) ==
    IF i > Len(change.change) \/ tracker.failure # NoFailure THEN tracker
    ELSE LET m == change.change[i]
         IN  applyDetaches(
                IF markEmptiesCells(m)
                THEN applyDetach(tracker, change, m, index) ELSE tracker,
                change, i + 1, index + getInputLength(m))

\* apply, second loop, one active reattach: the nodes at and after index
\* move up by inputLength, then the count revived cells are set from index.
applyReattach(tracker, m, index) ==
    LET inputLength == getInputLength(m)
        moved == [i \in 1..Len(tracker.nodes) |->
                    IF tracker.nodes[i].k >= index
                    THEN [k |-> tracker.nodes[i].k + inputLength,
                          v |-> tracker.nodes[i].v]
                    ELSE tracker.nodes[i]]
        detachEvent == Val(m.cellId)
        revived == [i \in 1..m.count |->
                      [k |-> index + (i - 1),
                       v |-> CellOf(detachEvent.revision,
                                    detachEvent.localId + (i - 1))]]
    IN  Tracker(MapSetAll(MapSetAll(<<>>, moved, 1), revived, 1),
                tracker.equivalences, NoFailure)

RECURSIVE applyReattaches(_, _, _, _)
applyReattaches(tracker, change, i, index) ==
    IF i > Len(change.change) THEN tracker
    ELSE LET m == change.change[i]
         IN  applyReattaches(
                IF isActiveReattach(m)
                THEN applyReattach(tracker, m, index) ELSE tracker,
                change, i + 1,
                IF ~markEmptiesCells(m)
                THEN index + getInputLength(m) ELSE index)

\* DetachedNodeTracker.apply
apply(tracker, change) ==
    LET detached == applyDetaches(tracker, change, 1, 0)
    IN  IF detached.failure # NoFailure THEN detached
        ELSE applyReattaches(detached, change, 1, 0)

\* A getUpdatedDetach that returns the cell it was given.
RECURSIVE getUpdatedDetachKeepingOriginal(_, _, _)
getUpdatedDetachKeepingOriginal(tracker, curr, i) == curr

RECURSIVE getUpdatedDetach(_, _, _)
getUpdatedDetach(tracker, curr, i) ==
    IF i > Len(tracker.equivalences) THEN curr
    ELSE LET eq == tracker.equivalences[i]
         IN  getUpdatedDetach(
                tracker,
                IF curr.revision = eq.old.revision /\ curr.localId = eq.old.localId
                THEN eq.new ELSE curr,
                i + 1)

\* DetachedNodeTracker.isApplicable
isApplicable(tracker, change) ==
    \A j \in 1..Len(change) :
        isActiveReattach(change[j]) =>
            \A i \in 0..(change[j].count - 1) :
                LET detachEvent == Val(change[j].cellId)
                    original == CellOf(detachEvent.revision, detachEvent.localId + i)
                    updated == getUpdatedDetach(tracker, original, 1)
                IN  \A n \in 1..Len(tracker.nodes) :
                        ~( /\ updated.revision = tracker.nodes[n].v.revision
                           /\ updated.localId = tracker.nodes[n].v.localId )

\* What areComposable gives: true, false, or the failure apply throws.
Composable == "true"
NotComposable == "false"

\* An areComposable that applies each change before it asks whether the
\* change is applicable.
RECURSIVE areComposableApplyingFirst(_, _, _)
areComposableApplyingFirst(tracker, changeList, i) ==
    IF i > Len(changeList) THEN Composable
    ELSE LET next == apply(tracker, changeList[i])
         IN  IF next.failure # NoFailure THEN next.failure
             ELSE IF ~isApplicable(next, changeList[i].change) THEN NotComposable
             ELSE areComposableApplyingFirst(next, changeList, i + 1)

\* The loop of areComposable from the i-th change on.
RECURSIVE areComposableFrom(_, _, _)
areComposableFrom(tracker, changeList, i) ==
    IF i > Len(changeList) THEN Composable
    ELSE IF ~isApplicable(tracker, changeList[i].change) THEN NotComposable
    ELSE LET next == apply(tracker, changeList[i])
         IN  IF next.failure # NoFailure THEN next.failure
             ELSE areComposableFrom(next, changeList, i + 1)

areComposable(changeList) == areComposableFrom(FreshTracker, changeList, 1)

----------------------------------------------------------------------------
(* Changesets of the tracker harnesses *)

TrackerMark(type, revision, id, count, cellId) ==
    Mark(Effect(type, revision, id, None, None, None, None),
         count, cellId, NoChanges, None)
DetachedCell(revision, localId) ==
    Some([revision |-> revision, localId |-> localId,
          lineage |-> None, adjacentCells |-> None])

\* One node that stays, revivals of the cells (r1, 0), (r1, 1) and (r3, 0),
\* and a removal of one node.
TrackerMarks ==
    {TrackerMark(NoopMarkType, Undef, NoId, 1, None),
     TrackerMark("Insert", Undef, 0, 1, DetachedCell("r1", 0)),
     TrackerMark("MoveIn", Undef, 0, 1, DetachedCell("r1", 1)),
     TrackerMark("Insert", Undef, 0, 1, DetachedCell("r3", 0)),
     TrackerMark("Delete", Undef, 0, 1, None)}

\* The marks above, a revival of (r1, 0..1), a new insertion, a transient
\* insertion (attached and detached by one mark), a move out, a removal of a cell that is empty and
\* an empty cell left as it is.
ComposableMarks ==
    TrackerMarks \cup
    {TrackerMark("Insert", Undef, 0, 2, DetachedCell("r1", 0)),
     TrackerMark("Insert", Undef, 1, 1, DetachedCell(Undef, 1)),
     Mark(Effect("AttachAndDetach", Undef, NoId, None, None,
                 Some(Effect("Insert", Undef, 0, None, None, None, None)),
                 Some(Effect("Delete", Undef, 1, None, None, None, None))),
          1, DetachedCell(Undef, 0), NoChanges, None),
     TrackerMark("MoveOut", "r3", 0, 2, None),
     TrackerMark("Delete", Undef, 0, 1, DetachedCell("r1", 0)),
     TrackerMark(NoopMarkType, Undef, NoId, 1, DetachedCell("r1", 1))}

SeqsUpTo(S, n) == UNION {[1..len -> S] : len \in 0..n}

Tagged(S) ==
    {[change |-> c, revision |-> r, rollbackOf |-> Undef] :
        c \in S, r \in {Undef, "r3"}}

Changesets == SeqsUpTo(TrackerMarks, MaxMarks)

\* The revision of the n-th change a tracker is given: the cells of r1 were
\* emptied before the first of them.
StepRevisions == <<"r2", "r3", "r4", "r5", "r6">>

\* The changesets a tracker can be given at its n-th step: a cell they name
\* was emptied by r1 or by the revision of an earlier step.
ChangesetsOfStep(S, n) ==
    LET known == {"r1"} \cup {StepRevisions[i] : i \in 1..(n - 1)}
    IN  {c \in S : \A j \in 1..Len(c) :
            IsSome(c[j].cellId) => Val(c[j].cellId).revision \in known}

\* The changes a tracker can be given as its n-th change: a changeset with
\* the revision of the step.
ChangesOfStep(S, n) ==
    {[change |-> c, revision |-> StepRevisions[n], rollbackOf |-> Undef] :
        c \in ChangesetsOfStep(S, n)}

\* The same changesets without a revision.
AnonymousChangesOfStep(S, n) ==
    {[change |-> c, revision |-> Undef, rollbackOf |-> Undef] :
        c \in ChangesetsOfStep(S, n)}

\* The arguments of areComposable: no change, one change, or one change
\* twice.
ComposableLists ==
    LET one == Tagged(SeqsUpTo(ComposableMarks, MaxMarks))
    IN  {<<>>} \cup {<<c>> : c \in one} \cup {<<c, c>> : c \in one}

\* The cells the active reattaches of a changeset revive.
RevivedCells(change) ==
    UNION { {CellOf(Val(change[j].cellId).revision,
                    Val(change[j].cellId).localId + i) :
                i \in 0..(change[j].count - 1)} :
            j \in {n \in 1..Len(change) : isActiveReattach(change[n])} }

----------------------------------------------------------------------------
(* DetachedNodeTracker harness: a tracker starts fresh; Apply applies a    *)
(* change that is applicable, IsApplicable asks about a changeset. A run   *)
(* ends with the question: isApplicable leaves the tracker as it is, so    *)
(* the changes that can follow it are those that can follow the applies.   *)

InitTracker ==
    /\ nodes = <<>> /\ equivalences = <<>> /\ failure = NoFailure
    /\ applied = 0 /\ reattached = {}
    /\ queried = {} /\ applicable = None
    /\ trackerBefore = None /\ lastChange = None
    /\ changes = <<>> /\ composable = Idle
    /\ oldMarkCell = Idle /\ newMarkCell = Idle
    /\ oldChangeKnowledge = {} /\ newChangeKnowledge = {}
    /\ metadata = Idle /\ order = Idle /\ swappedOrder = Idle
    /\ OtherIdle
    /\ ChecksIdle
    /\ MarksIdle
    /\ TableIdle
    /\ pc = "tracker"

Apply(change) ==
    /\ pc = "tracker" /\ applied < MaxApplied /\ failure = NoFailure
    /\ applicable = None
    /\ isApplicable(Tracker(nodes, equivalences, failure), change.change)
    /\ LET next == apply(Tracker(nodes, equivalences, failure), change)
       IN  /\ nodes' = next.nodes
           /\ equivalences' = next.equivalences
           /\ failure' = next.failure
    /\ applied' = applied + 1
    /\ reattached' = reattached \cup RevivedCells(change.change)
    /\ queried' = {} /\ applicable' = None
    /\ trackerBefore' = None
    /\ UNCHANGED <<checkVars, lastChange, changes, composable, pc,
                   cellVars, otherVars, markVars, tableVars>>

IsApplicable(change) ==
    /\ pc = "tracker" /\ failure = NoFailure
    /\ applicable = None
    /\ applicable' =
          Some(isApplicable(Tracker(nodes, equivalences, failure), change))
    /\ queried' = RevivedCells(change)
    /\ trackerBefore' = Some(Tracker(nodes, equivalences, failure))
    /\ UNCHANGED <<checkVars, nodes, equivalences, failure, applied, reattached,
                   lastChange, changes, composable, pc, cellVars, otherVars,
                   markVars, tableVars>>

NextTracker ==
    \/ \E change \in ChangesOfStep(Changesets, applied + 1) : Apply(change)
    \/ \E change \in ChangesetsOfStep(Changesets, applied + 1) :
          IsApplicable(change)

SpecTracker == InitTracker /\ [][NextTracker]_vars

\* C9: after one change was applied to a fresh tracker, isApplicable is
\* false for every changeset with an active reattach of a cell that the
\* applied change reattached.
C9_ReattachedCellIsNotApplicable ==
    (pc = "tracker" /\ applied = 1 /\ IsSome(applicable)
        /\ queried \cap reattached # {})
    => applicable = Some(FALSE)

\* The cell at the end of the chain of equivalences that starts at a cell:
\* the new cell of the first equivalence whose old cell it is, and so on
\* while there is one (at most fuel times).
RECURSIVE EndOfChain(_, _, _)
EndOfChain(eqs, cell, fuel) ==
    LET from == {i \in 1..Len(eqs) : eqs[i].old = cell}
    IN  IF from = {} \/ fuel = 0 THEN cell
        ELSE EndOfChain(eqs,
                        eqs[CHOOSE i \in from : \A j \in from : i <= j].new,
                        fuel - 1)

TrackedCells == {nodes[n].v : n \in 1..Len(nodes)}

----------------------------------------------------------------------------
(* areComposable harness: the list of changes is drawn in the initial      *)
(* state and Compose calls areComposable on it.                            *)

InitComposable ==
    /\ changes \in ComposableLists
    /\ composable = Idle
    /\ nodes = <<>> /\ equivalences = <<>> /\ failure = Idle /\ applied = 0
    /\ reattached = {} /\ queried = {} /\ applicable = None
    /\ trackerBefore = None /\ lastChange = None
    /\ oldMarkCell = Idle /\ newMarkCell = Idle
    /\ oldChangeKnowledge = {} /\ newChangeKnowledge = {}
    /\ metadata = Idle /\ order = Idle /\ swappedOrder = Idle
    /\ OtherIdle
    /\ ChecksIdle
    /\ MarksIdle
    /\ TableIdle
    /\ pc = "compose"

Compose ==
    /\ pc = "compose"
    /\ composable' = areComposable(changes)
    /\ pc' = "composed"
    /\ UNCHANGED <<checkVars, nodes, equivalences, failure, applied, reattached, queried,
                   applicable, trackerBefore, lastChange, changes, cellVars, otherVars,
                   markVars, tableVars>>

NextComposable == Compose

SpecComposable == InitComposable /\ [][NextComposable]_vars

WellFormed(change) == \A j \in 1..Len(change) : IsValidMark(change[j])

\* C10: areComposable of a list of one well-formed change is true, without
\* a failure, and areComposable of the empty list is true.
C10_OneChangeIsComposable ==
    (pc = "composed" /\ Len(changes) <= 1
        /\ \A i \in 1..Len(changes) : WellFormed(changes[i].change))
    => composable = Composable

\* One change that revives two cells, then removes a node.
C10_Witness ==
    /\ pc = "composed" /\ Len(changes) = 1 /\ composable = Composable
    /\ Len(changes[1].change) = 2
    /\ isActiveReattach(changes[1].change[1])
    /\ changes[1].change[1].count = 2
    /\ markEmptiesCells(changes[1].change[2])

----------------------------------------------------------------------------
(* DetachedNodeTracker.apply harness: a tracker starts fresh and           *)
(* ApplyRecorded applies one applicable change after the other; the        *)
(* tracker the change was applied to and the change are kept.              *)

\* The marks of the tracker harness, a revival of (r1, 0..1), a removal of
\* two nodes and a move out of one node.
ApplyMarks ==
    TrackerMarks \cup
    {TrackerMark("Insert", Undef, 0, 2, DetachedCell("r1", 0)),
     TrackerMark("Delete", Undef, 0, 2, None),
     TrackerMark("MoveOut", Undef, 0, 1, None)}

AppliedChanges == SeqsUpTo(ApplyMarks, MaxMarks)

InitApply ==
    /\ nodes = <<>> /\ equivalences = <<>> /\ failure = NoFailure
    /\ applied = 0 /\ reattached = {}
    /\ queried = {} /\ applicable = None
    /\ trackerBefore = None /\ lastChange = None
    /\ changes = <<>> /\ composable = Idle
    /\ oldMarkCell = Idle /\ newMarkCell = Idle
    /\ oldChangeKnowledge = {} /\ newChangeKnowledge = {}
    /\ metadata = Idle /\ order = Idle /\ swappedOrder = Idle
    /\ OtherIdle
    /\ ChecksIdle
    /\ MarksIdle
    /\ TableIdle
    /\ pc = "apply"

ApplyRecorded(change) ==
    /\ pc = "apply" /\ applied < MaxApplied /\ failure = NoFailure
    /\ isApplicable(Tracker(nodes, equivalences, failure), change.change)
    /\ LET next == apply(Tracker(nodes, equivalences, failure), change)
       IN  /\ nodes' = next.nodes
           /\ equivalences' = next.equivalences
           /\ failure' = next.failure
    /\ applied' = applied + 1
    /\ reattached' = reattached \cup RevivedCells(change.change)
    /\ trackerBefore' = Some(Tracker(nodes, equivalences, failure))
    /\ lastChange' = Some(change)
    /\ UNCHANGED <<checkVars, queried, applicable, changes, composable, pc, cellVars,
                   otherVars, markVars, tableVars>>

NextApply ==
    \E change \in ChangesOfStep(AppliedChanges, applied + 1)
                    \cup AnonymousChangesOfStep(AppliedChanges, applied + 1) :
        ApplyRecorded(change)

SpecApply == InitApply /\ [][NextApply]_vars

\* The entries of a Map and the elements of an array, as sets.
Entries(map) == {map[i] : i \in 1..Len(map)}

\* The input position at which the j-th mark of a changeset starts.
RECURSIVE InputStart(_, _)
InputStart(change, j) ==
    IF j <= 1 THEN 0
    ELSE InputStart(change, j - 1) + getInputLength(change[j - 1])

\* The marks of a changeset that empty cells and cover input position k.
DetachesCovering(change, k) ==
    {j \in 1..Len(change) :
        /\ markEmptiesCells(change[j])
        /\ InputStart(change, j) <= k
        /\ k < InputStart(change, j) + getInputLength(change[j])}

\* The number of cells that the marks of a changeset empty before input
\* position k.
RECURSIVE EmptiedBefore(_, _, _)
EmptiedBefore(change, k, j) ==
    IF j > Len(change) THEN 0
    ELSE (IF /\ markEmptiesCells(change[j])
             /\ InputStart(change, j) + getInputLength(change[j]) <= k
          THEN getInputLength(change[j]) ELSE 0)
         + EmptiedBefore(change, k, j + 1)

\* The nodes a tracker holds after every detaching mark of a change removed
\* the tracked indices of its input range and moved the later ones down.
NodesAfterDetaches(tracker, change) ==
    {[k |-> e.k - EmptiedBefore(change.change, e.k, 1), v |-> e.v] :
        e \in {f \in Entries(tracker.nodes) :
                  DetachesCovering(change.change, f.k) = {}}}

\* The equivalences every detaching mark of a change records for the
\* tracked indices of its input range.
EquivalencesOfDetaches(tracker, change) ==
    UNION {{[old |-> e.v,
             new |-> CellOf(orElse(change.rollbackOf,
                                   orElse(change.change[j].revision,
                                          change.revision)),
                            change.change[j].id
                                + (e.k - InputStart(change.change, j))) ]
              : j \in DetachesCovering(change.change, e.k)}
           : e \in Entries(tracker.nodes)}

\* C11: after the first loop of apply, the tracked indices inside the input
\* range of each mark that empties cells are removed, with an equivalence
\* from the tracked cell to the cell the detach leaves at that position, and
\* the tracked indices after the range are moved down by its length; this
\* holds for each detaching mark when a change has several.
C11_DetachPass ==
    (pc = "apply" /\ IsSome(lastChange) /\ failure = NoFailure)
    => LET tracker == Val(trackerBefore)
           change == Val(lastChange)
           detached == applyDetaches(tracker, change, 1, 0)
       IN  /\ Entries(detached.nodes) = NodesAfterDetaches(tracker, change)
           /\ Entries(SubSeq(detached.equivalences,
                             Len(tracker.equivalences) + 1,
                             Len(detached.equivalences)))
                 = EquivalencesOfDetaches(tracker, change)

\* One active reattach that moves the nodes at and after index up by the
\* count of the mark before it sets the count revived cells from index.
reattachShiftingByCount(tracker, m, index) ==
    LET moved == [i \in 1..Len(tracker.nodes) |->
                    IF tracker.nodes[i].k >= index
                    THEN [k |-> tracker.nodes[i].k + m.count,
                          v |-> tracker.nodes[i].v]
                    ELSE tracker.nodes[i]]
        detachEvent == Val(m.cellId)
        revived == [i \in 1..m.count |->
                      [k |-> index + (i - 1),
                       v |-> CellOf(detachEvent.revision,
                                    detachEvent.localId + (i - 1))]]
    IN  Tracker(MapSetAll(MapSetAll(<<>>, moved, 1), revived, 1),
                tracker.equivalences, NoFailure)

RECURSIVE reattachesShiftingByCount(_, _, _, _)
reattachesShiftingByCount(tracker, change, i, index) ==
    IF i > Len(change.change) THEN tracker
    ELSE LET m == change.change[i]
         IN  reattachesShiftingByCount(
                IF isActiveReattach(m)
                THEN reattachShiftingByCount(tracker, m, index) ELSE tracker,
                change, i + 1,
                IF ~markEmptiesCells(m)
                THEN index + getInputLength(m) ELSE index)

CellsOf(map) == {map[i].v : i \in 1..Len(map)}

\* C12: after the second loop of apply, for every active reattach the
\* tracked indices at or after the insertion point are moved up by the count
\* of the mark and the revived cells are tracked at the indices opened, and
\* every cell that was tracked before the loop is still tracked.
C12_ReattachPass ==
    (pc = "apply" /\ IsSome(lastChange) /\ failure = NoFailure)
    => LET change == Val(lastChange)
           detached == applyDetaches(Val(trackerBefore), change, 1, 0)
       IN  /\ Entries(nodes) =
                 Entries(reattachesShiftingByCount(detached, change, 1, 0).nodes)
           /\ CellsOf(detached.nodes) \cup RevivedCells(change.change)
                 \subseteq CellsOf(nodes)

----------------------------------------------------------------------------
(* areRebasable *)

Rebasable == "true"
NotRebasable == "false"
InconsistentBranch ==
    "First changeset as inconsistent characterization of detached nodes"

\* The cells the active reattaches of a changeset revive from its j-th mark
\* on, in the order of the loops of areRebasable, each with the input index
\* of its mark.
RECURSIVE reattachUnits(_, _, _)
reattachUnits(change, j, index) ==
    IF j > Len(change) THEN <<>>
    ELSE LET m == change[j]
             units == IF isActiveReattach(m)
                      THEN [i \in 1..m.count |->
                              [key |-> CellOf(Val(m.cellId).revision,
                                              Val(m.cellId).localId + (i - 1)),
                               index |-> index]]
                      ELSE <<>>
         IN  units \o reattachUnits(change, j + 1, index + getInputLength(m))

\* indexToReattach.get(index): the keys branch revives at index, in order.
reattachList(branchUnits, index) ==
    LET AtIndex(u) == u.index = index
        at == SelectSeq(branchUnits, AtIndex)
    IN  [p \in 1..Len(at) |-> at[p].key]

\* A loop over the cells of a mark of target that does not look at the
\* order of the cells in the list of branch.
RECURSIVE targetMarkIgnoringOrder(_, _, _, _, _)
targetMarkIgnoringOrder(branchUnits, m, index, listIndex, i) ==
    IF i >= m.count THEN listIndex
    ELSE LET key == CellOf(Val(m.cellId).revision, Val(m.cellId).localId + i)
         IN  IF \E n \in 1..Len(branchUnits) :
                    branchUnits[n].key = key /\ branchUnits[n].index # index
             THEN NoIndex
             ELSE targetMarkIgnoringOrder(branchUnits, m, index, listIndex, i + 1)

\* The inner loop of the second loop, from the i-th cell of an active
\* reattach of target on: the listIndex it leaves, or NoIndex where
\* areRebasable returns false.
RECURSIVE targetMark(_, _, _, _, _)
targetMark(branchUnits, m, index, listIndex, i) ==
    IF i >= m.count THEN listIndex
    ELSE LET key == CellOf(Val(m.cellId).revision, Val(m.cellId).localId + i)
             list == reattachList(branchUnits, index)
             found == {p \in (listIndex + 1)..Len(list) : list[p] = key}
             next == IF found = {} THEN Len(list)
                     ELSE (CHOOSE p \in found : \A q \in found : p <= q) - 1
         IN  IF \E n \in 1..Len(branchUnits) :
                    branchUnits[n].key = key /\ branchUnits[n].index # index
             THEN NoIndex
             ELSE IF \E p \in 1..Len(list) : list[p] = key
             THEN IF \E p \in 1..next : list[p] = key
                  THEN NoIndex
                  ELSE targetMark(branchUnits, m, index, next, i + 1)
             ELSE targetMark(branchUnits, m, index, listIndex, i + 1)

\* The second loop of areRebasable from the j-th mark of target on.
RECURSIVE targetLoop(_, _, _, _, _)
targetLoop(branchUnits, change, j, index, listIndex) ==
    IF j > Len(change) THEN Rebasable
    ELSE LET m == change[j]
             inputLength == getInputLength(m)
             left == IF isActiveReattach(m)
                     THEN targetMark(branchUnits, m, index, listIndex, 0)
                     ELSE listIndex
         IN  IF left = NoIndex THEN NotRebasable
             ELSE targetLoop(branchUnits, change, j + 1,
                             index + inputLength,
                             IF inputLength > 0 THEN 0 ELSE left)

\* areRebasable: the first loop fails where branch revives a cell twice.
areRebasable(b, t) ==
    LET branchUnits == reattachUnits(b, 1, 0)
    IN  IF \E n, k \in 1..Len(branchUnits) :
              n # k /\ branchUnits[n].key = branchUnits[k].key
        THEN InconsistentBranch
        ELSE targetLoop(branchUnits, t, 1, 0, 0)

\* One node that stays, revivals of the cells (r1, 0), (r1, 0..1) and
\* (r1, 1), and a new insertion.
RebasableMarks ==
    {TrackerMark(NoopMarkType, Undef, NoId, 1, None),
     TrackerMark("Insert", Undef, 0, 1, DetachedCell("r1", 0)),
     TrackerMark("Insert", Undef, 0, 2, DetachedCell("r1", 0)),
     TrackerMark("MoveIn", Undef, 0, 1, DetachedCell("r1", 1)),
     TrackerMark("Insert", Undef, 1, 1, DetachedCell(Undef, 1))}

InitRebasable ==
    /\ branchChange \in SeqsUpTo(RebasableMarks, MaxMarks)
    /\ targetChange \in SeqsUpTo(RebasableMarks, MaxMarks)
    /\ rebasable = Idle
    /\ oldMarkCell = Idle /\ newMarkCell = Idle
    /\ oldChangeKnowledge = {} /\ newChangeKnowledge = {}
    /\ metadata = Idle /\ order = Idle /\ swappedOrder = Idle
    /\ OtherIdle
    /\ MarksIdle
    /\ TableIdle
    /\ TrackerIdle
    /\ MergeIdle
    /\ SettleIdle
    /\ RenameIdle
    /\ ExtraIdle
    /\ pc = "rebase"

AreRebasable ==
    /\ pc = "rebase"
    /\ rebasable' = areRebasable(branchChange, targetChange)
    /\ pc' = "rebased"
    /\ UNCHANGED <<branchChange, targetChange, cellVars, otherVars, markVars,
                   tableVars, trackerVars, mergeVars, settleVars,
                   renameVars, extraVars>>

NextRebasable == AreRebasable

SpecRebasable == InitRebasable /\ [][NextRebasable]_vars

\* A cell both changesets revive, at different input indices.
RevivedApart(branchUnits, targetUnits) ==
    \E n \in 1..Len(branchUnits), k \in 1..Len(targetUnits) :
        /\ branchUnits[n].key = targetUnits[k].key
        /\ branchUnits[n].index # targetUnits[k].index

\* Two cells both changesets revive at one index, in one order in branch and
\* in the opposite order in target.
RevivedInOppositeOrder(branchUnits, targetUnits) ==
    \E n1, n2 \in 1..Len(branchUnits), k1, k2 \in 1..Len(targetUnits) :
        /\ n1 < n2 /\ k2 < k1
        /\ branchUnits[n1].key = targetUnits[k1].key
        /\ branchUnits[n2].key = targetUnits[k2].key
        /\ branchUnits[n1].index = branchUnits[n2].index
        /\ targetUnits[k1].index = branchUnits[n1].index
        /\ targetUnits[k2].index = branchUnits[n1].index

Inconsistent(b, t) ==
    \/ RevivedApart(reattachUnits(b, 1, 0), reattachUnits(t, 1, 0))
    \/ RevivedInOppositeOrder(reattachUnits(b, 1, 0), reattachUnits(t, 1, 0))

RevivesACellTwice(change) ==
    LET units == reattachUnits(change, 1, 0)
    IN  \E n, k \in 1..Len(units) : n # k /\ units[n].key = units[k].key

\* C14 as stated: areRebasable is false if and only if a cell that both
\* changesets revive is revived at different input indices, or two such
\* cells revived at one index are in opposite orders; otherwise it is true.
C14_RebasableAsStated ==
    pc = "rebased"
    => rebasable = IF Inconsistent(branchChange, targetChange)
                   THEN NotRebasable ELSE Rebasable

\* C14, amended: where branch revives no cell twice, areRebasable is false
\* if and only if a cell that both changesets revive is revived at different
\* input indices, or two such cells revived at one index are in opposite
\* orders, and true otherwise; where branch revives a cell twice it fails an
\* assertion.
C14_Rebasable ==
    pc = "rebased"
    => rebasable = IF RevivesACellTwice(branchChange) THEN InconsistentBranch
                   ELSE IF Inconsistent(branchChange, targetChange)
                   THEN NotRebasable ELSE Rebasable

\* Both changesets revive (r1, 0) and (r1, 1) at index 0, in opposite
\* orders.
C14_Witness ==
    /\ pc = "rebased" /\ rebasable = NotRebasable
    /\ ~RevivesACellTwice(branchChange)
    /\ ~RevivedApart(reattachUnits(branchChange, 1, 0),
                     reattachUnits(targetChange, 1, 0))
    /\ RevivedInOppositeOrder(reattachUnits(branchChange, 1, 0),
                              reattachUnits(targetChange, 1, 0))

----------------------------------------------------------------------------
(* tryMergeMarks harness: two marks are drawn in the initial state and     *)
(* TryMerge calls tryMergeMarks on them.                                   *)

MergeCells ==
    {None, DetachedCell("r1", 0), DetachedCell("r1", 1),
     Some([revision |-> "r1", localId |-> 1,
           lineage |-> Some(<<[revision |-> "r2", id |-> 0, count |-> 2,
                               offset |-> 1]>>),
           adjacentCells |-> None])}

MergeEndpoints ==
    {None, Some([revision |-> "r1", localId |-> 0]),
     Some([revision |-> "r1", localId |-> 1])}

MergeEffects ==
    {Effect(NoopMarkType, Undef, NoId, None, None, None, None)}
    \cup {Effect(t, r, i, None, None, None, None) :
            t \in {"Insert", "Delete"}, r \in {Undef, "r1"}, i \in 0..MaxLocalId}
    \cup {Effect(t, Undef, i, None, None, None, None) :
            t \in {"MoveIn", "MoveOut"}, i \in 0..MaxLocalId}
    \cup {Effect("AttachAndDetach", Undef, NoId, None, None,
                 Some(Effect("Insert", Undef, i, None, None, None, None)),
                 Some(Effect("Delete", Undef, j, None, None, None, None))) :
            i \in 0..MaxLocalId, j \in 0..MaxLocalId}

\* The marks tryMergeMarks is given: of one or two cells, with and without
\* a cellId, nested changes and a vestigial endpoint.
MergeMarks ==
    { m \in { Mark(x[1], x[2], x[3], x[4], x[5]) :
                x \in MergeEffects \X {1, 2} \X MergeCells
                        \X {NoChanges, "c1"} \X MergeEndpoints } :
        IsValidMark(m) }

InitMerge ==
    /\ lhsMark \in MergeMarks
    /\ rhsMark \in {m \in MergeMarks : m.count = 1}
    /\ mergedMark = Idle
    /\ oldMarkCell = Idle /\ newMarkCell = Idle
    /\ oldChangeKnowledge = {} /\ newChangeKnowledge = {}
    /\ metadata = Idle /\ order = Idle /\ swappedOrder = Idle
    /\ OtherIdle
    /\ MarksIdle
    /\ TableIdle
    /\ TrackerIdle
    /\ RebasableIdle
    /\ SettleIdle
    /\ RenameIdle
    /\ ExtraIdle
    /\ pc = "merge"

TryMerge ==
    /\ pc = "merge"
    /\ mergedMark' = tryMergeMarks(lhsMark, rhsMark)
    /\ pc' = "merge done"
    /\ UNCHANGED <<lhsMark, rhsMark, cellVars, otherVars, markVars, tableVars,
                   trackerVars, rebasableVars, settleVars, renameVars,
                   extraVars>>

NextMerge == TryMerge

SpecMerge == InitMerge /\ [][NextMerge]_vars

\* The conditions on the two marks other than the one on their effects.
MergeableMarkFields(l, r) ==
    /\ l.type = r.type
    /\ \/ l.cellId = None /\ r.cellId = None
       \/ /\ IsSome(l.cellId) /\ IsSome(r.cellId)
          /\ Val(l.cellId).revision = Val(r.cellId).revision
          /\ areSameLineage(Val(l.cellId).lineage, Val(r.cellId).lineage)
          /\ Val(r.cellId).localId = Val(l.cellId).localId + l.count
    /\ l.changes = NoChanges /\ r.changes = NoChanges
    /\ \/ l.vestigialEndpoint = None /\ r.vestigialEndpoint = None
       \/ /\ IsSome(l.vestigialEndpoint) /\ IsSome(r.vestigialEndpoint)
          /\ Val(l.vestigialEndpoint).revision
                = Val(r.vestigialEndpoint).revision
          /\ Val(r.vestigialEndpoint).localId
                = Val(l.vestigialEndpoint).localId + l.count

AdjacentEffects(l, r, lhsCount) ==
    l.revision = r.revision /\ r.id = l.id + lhsCount

MergedFromLhs(l, r, merged) ==
    /\ merged.count = l.count + r.count
    /\ merged.type = l.type /\ merged.id = l.id /\ merged.cellId = l.cellId

\* C16 as stated: tryMergeMarks returns a mark only if the marks have the
\* same type, mergeable cellIds, no nested changes, mergeable vestigial
\* endpoints, and effects of the same revision with rhs.id = lhs.id +
\* lhs.count; the mark has the sum of the counts and the type, id and cellId
\* of lhs.
C16_MergeAsStated ==
    (pc = "merge done" /\ IsSome(mergedMark))
    => /\ MergeableMarkFields(lhsMark, rhsMark)
       /\ AdjacentEffects(lhsMark, rhsMark, lhsMark.count)
       /\ MergedFromLhs(lhsMark, rhsMark, Val(mergedMark))

\* C16, amended: the condition on the effects is on the revision and id of
\* an Insert, Delete, MoveIn or MoveOut and on those of both sub-effects of
\* an AttachAndDetach; a NoOp mark has none.
C16_Merge ==
    (pc = "merge done" /\ IsSome(mergedMark))
    => /\ MergeableMarkFields(lhsMark, rhsMark)
       /\ (isAttach(lhsMark) \/ isDetach(lhsMark))
             => AdjacentEffects(lhsMark, rhsMark, lhsMark.count)
       /\ isAttachAndDetachEffect(lhsMark)
             => /\ AdjacentEffects(Val(lhsMark.attach), Val(rhsMark.attach),
                                   lhsMark.count)
                /\ AdjacentEffects(Val(lhsMark.detach), Val(rhsMark.detach),
                                   lhsMark.count)
       /\ MergedFromLhs(lhsMark, rhsMark, Val(mergedMark))

\* Two AttachAndDetach marks with adjacent cells and vestigial endpoints
\* were merged.
C16_Witness ==
    /\ pc = "merge done" /\ IsSome(mergedMark)
    /\ isAttachAndDetachEffect(lhsMark)
    /\ IsSome(lhsMark.vestigialEndpoint)
    /\ Val(mergedMark).count = 2

----------------------------------------------------------------------------
(* Cell ids of a mark, isImpactful and settleMark.                         *)
(* A RevisionMetadataSource is modelled by what getIntention reads from    *)
(* it: a function from revisions to intentions. The argument is None       *)
(* where the source passes undefined.                                      *)

getIntention(revision, revisionMetadata) == revisionMetadata[revision]

getIntentionIfMetadataProvided(revision, optMetadata) ==
    IF optMetadata = None THEN revision
    ELSE getIntention(revision, Val(optMetadata))

isNoopMark(m) == m.type = NoopMarkType

markFillsCells(m) == areInputCellsEmpty(m) /\ ~areOutputCellsEmpty(m)

\* Returns None for undefined.
getInputCellId(m, revision, optMetadata) ==
    IF m.cellId = None THEN None
    ELSE IF Val(m.cellId).revision # Undef THEN m.cellId
    ELSE LET markRevision ==
                 IF isAttachAndDetachEffect(m) THEN Val(m.attach).revision
                 ELSE IF ~isNoopMark(m) THEN m.revision
                 ELSE Undef
         IN  Some([Val(m.cellId) EXCEPT
                      !.revision = getIntentionIfMetadataProvided(
                                      orElse(markRevision, revision),
                                      optMetadata)])

\* mark.idOverride?.id, or the id of the detach in its revision.
getDetachOutputId(effect, revision, optMetadata) ==
    IF IsSome(effect.idOverride)
    THEN [revision |-> Val(effect.idOverride).id.revision,
          localId |-> Val(effect.idOverride).id.localId]
    ELSE [revision |-> getIntentionIfMetadataProvided(
                          orElse(effect.revision, revision), optMetadata),
          localId |-> effect.id]

\* Returns None for undefined.
getOutputCellId(m, revision, optMetadata) ==
    IF isDetach(m) THEN Some(getDetachOutputId(m, revision, optMetadata))
    ELSE IF markFillsCells(m) THEN None
    ELSE IF isAttachAndDetachEffect(m)
    THEN Some(getDetachOutputId(Val(m.detach), revision, optMetadata))
    ELSE getInputCellId(m, revision, optMetadata)

Impactful == "true"
NotImpactful == "false"
MoveInWithoutCell == "0x825: MoveIn marks should target empty cells"

\* An isImpactful for which every Delete has an impact.
isImpactfulForEveryDelete(m, revision, optMetadata) ==
    CASE m.type = NoopMarkType -> NotImpactful
      [] m.type \in {"Delete", "AttachAndDetach", "MoveOut"} -> Impactful
      [] m.type = "MoveIn" ->
            IF m.cellId = None THEN MoveInWithoutCell ELSE Impactful
      [] m.type = "Insert" ->
            IF IsSome(m.cellId) THEN Impactful ELSE NotImpactful

\* isImpactful: true, false, or the assertion that fails.
isImpactful(m, revision, optMetadata) ==
    CASE m.type = NoopMarkType -> NotImpactful
      [] m.type = "Delete" ->
            LET inputId == getInputCellId(m, revision, optMetadata)
                outputId == getOutputCellId(m, revision, optMetadata)
            IN  IF inputId = None THEN Impactful
                ELSE IF ~areEqualChangeAtomIds(Val(inputId), Val(outputId))
                THEN Impactful ELSE NotImpactful
      [] m.type \in {"AttachAndDetach", "MoveOut"} -> Impactful
      [] m.type = "MoveIn" ->
            IF m.cellId = None THEN MoveInWithoutCell ELSE Impactful
      [] m.type = "Insert" ->
            IF IsSome(m.cellId) THEN Impactful ELSE NotImpactful

\* An omitMarkEffect that keeps the cellId of a mark with an effect only.
omitMarkEffectOfEffectMarks(m) ==
    Mark(Effect(NoopMarkType, Undef, NoId, None, None, None, None),
         m.count, IF isNoopMark(m) THEN None ELSE m.cellId, m.changes, None)

\* A mark with the count, cellId and changes of the mark and nothing else.
omitMarkEffect(m) ==
    Mark(Effect(NoopMarkType, Undef, NoId, None, None, None, None),
         m.count, m.cellId, m.changes, None)

\* A settleMark that strips the effect of every mark.
settleMarkOmittingAlways(m, revision, optMetadata) ==
    IF isImpactful(m, revision, optMetadata) = MoveInWithoutCell THEN None
    ELSE Some(omitMarkEffect(m))

\* settleMark: Some(mark), or None where isImpactful fails an assertion.
settleMark(m, revision, optMetadata) ==
    LET impact == isImpactful(m, revision, optMetadata)
    IN  IF impact = MoveInWithoutCell THEN None
        ELSE IF impact = Impactful THEN Some(m)
        ELSE Some(omitMarkEffect(m))

\* Metadata under which every revision is its own intention, and metadata
\* under which r2 is the rollback of r1.
Intentions ==
    {[r \in OptRevisions |-> r],
     [r \in OptRevisions |-> IF r = "r2" THEN "r1" ELSE r]}

\* The marks of one cell that the model draws, and a MoveIn without
\* cellId.
SettleMarks ==
    {m \in Marks : m.count = 1}
    \cup {Mark(e, 1, None, NoChanges, None) : e \in MoveInEffects}

InitSettle ==
    /\ settleArg \in SettleMarks
    /\ settleRevision \in MarkRevisions
    /\ settleMetadata \in {None} \cup {Some(f) : f \in Intentions}
    /\ impactful = Idle /\ settled = None /\ resettled = None
    /\ oldMarkCell = Idle /\ newMarkCell = Idle
    /\ oldChangeKnowledge = {} /\ newChangeKnowledge = {}
    /\ metadata = Idle /\ order = Idle /\ swappedOrder = Idle
    /\ OtherIdle
    /\ MarksIdle
    /\ TableIdle
    /\ TrackerIdle
    /\ RebasableIdle
    /\ MergeIdle
    /\ RenameIdle
    /\ ExtraIdle
    /\ pc = "settle"

\* isImpactful, settleMark, and settleMark on the mark it returned.
Settle ==
    /\ pc = "settle"
    /\ impactful' = isImpactful(settleArg, settleRevision, settleMetadata)
    /\ LET once == settleMark(settleArg, settleRevision, settleMetadata)
       IN  /\ settled' = once
           /\ resettled' =
                 IF once = None THEN None
                 ELSE settleMark(Val(once), settleRevision, settleMetadata)
    /\ pc' = "settled"
    /\ UNCHANGED <<settleArg, settleRevision, settleMetadata, cellVars,
                   otherVars, markVars, tableVars, trackerVars, rebasableVars,
                   mergeVars, renameVars, extraVars>>

NextSettle == Settle

SpecSettle == InitSettle /\ [][NextSettle]_vars

\* C17: where settleMark returns, settleMark of the mark it returned is
\* structurally equal to that mark.
C17_SettleIsIdempotent ==
    (pc = "settled" /\ IsSome(settled)) => resettled = settled

\* A Delete that has no impact was settled to a NoOp mark, and settling
\* that mark gave the same mark.
C17_Witness ==
    /\ pc = "settled" /\ settleArg.type = "Delete"
    /\ IsSome(settled) /\ Val(settled) # settleArg
    /\ IsSome(Val(settled).cellId)
    /\ resettled = settled

\* C18: isImpactful is false for a NoOp mark; for a Delete it is false
\* exactly when the mark has an input cell id and that id and its output
\* cell id have the same revision and localId; it is true for a MoveOut and
\* an AttachAndDetach, true for a MoveIn with a cellId (without one an
\* assertion fails), and for an Insert true exactly when it has a cellId.
C18_Impactful ==
    pc = "settled" =>
        LET m == settleArg
            inputId == getInputCellId(m, settleRevision, settleMetadata)
            outputId == getOutputCellId(m, settleRevision, settleMetadata)
            Is(b) == IF b THEN Impactful ELSE NotImpactful
        IN  impactful =
              CASE m.type = NoopMarkType -> NotImpactful
                [] m.type = "Delete" ->
                      Is(~( /\ IsSome(inputId)
                            /\ Val(inputId).revision = Val(outputId).revision
                            /\ Val(inputId).localId = Val(outputId).localId ))
                [] m.type \in {"MoveOut", "AttachAndDetach"} -> Impactful
                [] m.type = "MoveIn" ->
                      IF IsSome(m.cellId) THEN Impactful ELSE MoveInWithoutCell
                [] m.type = "Insert" -> Is(IsSome(m.cellId))

\* A Delete without revision of a cell without revision, whose id is the
\* localId of the cell, has no impact.
C18_Witness ==
    /\ pc = "settled" /\ settleArg.type = "Delete"
    /\ settleArg.revision = Undef /\ IsSome(settleArg.cellId)
    /\ Val(settleArg.cellId).revision = Undef
    /\ settleArg.idOverride = None
    /\ impactful = NotImpactful

\* C19: settleMark returns the mark it was given where the mark is
\* impactful; where it is not, it returns a NoOp mark with the count, the
\* cellId and the nested changes of the mark and no other field.
C19_Settle ==
    (pc = "settled" /\ impactful # MoveInWithoutCell)
    => IF impactful = Impactful THEN settled = Some(settleArg)
       ELSE /\ IsSome(settled)
            /\ Val(settled).type = NoopMarkType
            /\ Val(settled).count = settleArg.count
            /\ Val(settled).cellId = settleArg.cellId
            /\ Val(settled).changes = settleArg.changes
            /\ Val(settled).revision = Undef /\ Val(settled).id = NoId
            /\ Val(settled).idOverride = None
            /\ Val(settled).finalEndpoint = None
            /\ Val(settled).vestigialEndpoint = None
            /\ Val(settled).attach = None /\ Val(settled).detach = None

\* A Delete with an id override, a vestigial endpoint and nested changes
\* was settled to a NoOp mark that keeps the changes.
C19_Witness ==
    /\ pc = "settled" /\ impactful = NotImpactful
    /\ settleArg.type = "Delete" /\ IsSome(settleArg.idOverride)
    /\ IsSome(settleArg.vestigialEndpoint) /\ settleArg.changes # NoChanges
    /\ IsSome(settled) /\ Val(settled).changes = settleArg.changes
    /\ Val(settled).idOverride = None

\* ---------------------------------------------------------------------
\* normalizeCellRename
\* ---------------------------------------------------------------------

\* withNodeChange: a copy of the mark with the given nested changes, or
\* without nested changes where none are given. None stands for the
\* failure of assertion 0x6a7.
withNodeChange(m, nodeChange) ==
    IF nodeChange # NoChanges
    THEN IF m.type = "MoveIn" THEN None
         ELSE Some([m EXCEPT !.changes = nodeChange])
    ELSE Some([m EXCEPT !.changes = NoChanges])

\* normalizeCellRename: None stands for the failure of assertion 0x823.
normalizeCellRename(m, nodeChange) ==
    IF m.cellId = None THEN None
    ELSE IF \/ Val(m.attach).type # "Insert"
            \/ isNewAttachEffect(Val(m.attach), m.cellId, Undef)
    THEN withNodeChange(m, nodeChange)
    ELSE withNodeChange(Mark(Val(m.detach), m.count, m.cellId, NoChanges, None),
                        IF nodeChange # NoChanges THEN nodeChange
                        ELSE m.changes)

\* The AttachAndDetach marks the model draws, and those without cellId.
RenameMarks ==
    {m \in Marks : m.type = "AttachAndDetach"}
    \cup {Mark(e, 1, None, c, None) :
            e \in AttachAndDetachEffects, c \in {NoChanges, "c1"}}

InitRename ==
    /\ renameArg \in RenameMarks
    /\ renameChange \in {NoChanges, "c2"}
    /\ normalized = None
    /\ oldMarkCell = Idle /\ newMarkCell = Idle
    /\ oldChangeKnowledge = {} /\ newChangeKnowledge = {}
    /\ metadata = Idle /\ order = Idle /\ swappedOrder = Idle
    /\ OtherIdle
    /\ MarksIdle
    /\ TableIdle
    /\ TrackerIdle
    /\ RebasableIdle
    /\ MergeIdle
    /\ SettleIdle
    /\ ExtraIdle
    /\ pc = "rename"

Normalize ==
    /\ pc = "rename"
    /\ normalized' = normalizeCellRename(renameArg, renameChange)
    /\ pc' = "renamed"
    /\ UNCHANGED <<renameArg, renameChange, cellVars, otherVars, markVars,
                   tableVars, trackerVars, rebasableVars, mergeVars,
                   settleVars, extraVars>>

NextRename == Normalize

SpecRename == InitRename /\ [][NextRename]_vars

\* C20: normalizeCellRename of an AttachAndDetach mark with a cellId,
\* called without a replacement node change, returns the mark itself,
\* nested changes included, where the attach is new, and otherwise the
\* detach with the count, the cellId and the nested changes of the mark.
C20_NormalizeAsStated ==
    (pc = "renamed" /\ IsSome(renameArg.cellId) /\ renameChange = NoChanges)
    => IF isNewAttachEffect(Val(renameArg.attach), renameArg.cellId, Undef)
       THEN normalized = Some(renameArg)
       ELSE normalized =
              Some(Mark(Val(renameArg.detach), renameArg.count,
                        renameArg.cellId, renameArg.changes, None))

\* ---------------------------------------------------------------------
\* cloneMark, cloneMarkEffect, cloneCellId
\* ---------------------------------------------------------------------

\* The objects of the program are the elements of heap; a reference is an
\* index into heap, and NullRef is the absence of the field. An "effect"
\* object is a mark or a sub-effect, a "cell" object a CellId, an "array"
\* object a lineage or an adjacentCells array, an "event" object a
\* LineageEvent, a "range" object an IdRange, an "override" object a
\* DetachIdOverride and an "atom" object a ChangeAtomId.
NullRef == 0

Allocate(h, object) == <<Append(h, object), Len(h) + 1>>

storeAtom(h, atom) ==
    IF atom = None THEN <<h, NullRef>>
    ELSE Allocate(h, [kind |-> "atom", revision |-> Val(atom).revision,
                      localId |-> Val(atom).localId])

storeItem(h, item) ==
    IF "offset" \in DOMAIN item
    THEN Allocate(h, [kind |-> "event", revision |-> item.revision,
                      id |-> item.id, count |-> item.count,
                      offset |-> item.offset])
    ELSE Allocate(h, [kind |-> "range", id |-> item.id, count |-> item.count])

RECURSIVE storeItems(_, _, _)
storeItems(h, items, refs) ==
    IF Len(refs) = Len(items) THEN <<h, refs>>
    ELSE LET stored == storeItem(h, items[Len(refs) + 1])
         IN  storeItems(stored[1], items, Append(refs, stored[2]))

storeArray(h, array) ==
    IF array = None THEN <<h, NullRef>>
    ELSE LET stored == storeItems(h, Val(array), <<>>)
         IN  Allocate(stored[1], [kind |-> "array", items |-> stored[2]])

storeCell(h, cellId) ==
    IF cellId = None THEN <<h, NullRef>>
    ELSE LET lineage == storeArray(h, Val(cellId).lineage)
             adjacent == storeArray(lineage[1], Val(cellId).adjacentCells)
         IN  Allocate(adjacent[1],
                      [kind |-> "cell", revision |-> Val(cellId).revision,
                       localId |-> Val(cellId).localId,
                       lineage |-> lineage[2],
                       adjacentCells |-> adjacent[2]])

storeOverride(h, idOverride) ==
    IF idOverride = None THEN <<h, NullRef>>
    ELSE LET id == storeCell(h, Some(Val(idOverride).id))
         IN  Allocate(id[1], [kind |-> "override",
                              type |-> Val(idOverride).type, id |-> id[2]])

\* The object graph of a mark or of a sub-effect.
RECURSIVE storeEffect(_, _)
storeEffect(h, e) ==
    LET isMark == "count" \in DOMAIN e
        o == storeOverride(h, e.idOverride)
        f == storeAtom(o[1], e.finalEndpoint)
        a == IF e.attach = None THEN <<f[1], NullRef>>
             ELSE storeEffect(f[1], Val(e.attach))
        d == IF e.detach = None THEN <<a[1], NullRef>>
             ELSE storeEffect(a[1], Val(e.detach))
        c == IF isMark THEN storeCell(d[1], e.cellId) ELSE <<d[1], NullRef>>
        v == IF isMark THEN storeAtom(c[1], e.vestigialEndpoint)
             ELSE <<c[1], NullRef>>
    IN  Allocate(v[1],
                 [kind |-> "effect", type |-> e.type, revision |-> e.revision,
                  id |-> e.id, count |-> IF isMark THEN e.count ELSE 0,
                  changes |-> IF isMark THEN e.changes ELSE NoChanges,
                  cellId |-> c[2], idOverride |-> o[2],
                  finalEndpoint |-> f[2], vestigialEndpoint |-> v[2],
                  attach |-> a[2], detach |-> d[2]])

\* The value an object graph holds.
loadAtom(h, a) ==
    IF a = NullRef THEN None
    ELSE Some([revision |-> h[a].revision, localId |-> h[a].localId])

loadItem(h, a) ==
    IF h[a].kind = "event"
    THEN [revision |-> h[a].revision, id |-> h[a].id, count |-> h[a].count,
          offset |-> h[a].offset]
    ELSE [id |-> h[a].id, count |-> h[a].count]

loadArray(h, a) ==
    IF a = NullRef THEN None
    ELSE Some([i \in 1..Len(h[a].items) |-> loadItem(h, h[a].items[i])])

loadCell(h, a) ==
    IF a = NullRef THEN None
    ELSE Some([revision |-> h[a].revision, localId |-> h[a].localId,
               lineage |-> loadArray(h, h[a].lineage),
               adjacentCells |-> loadArray(h, h[a].adjacentCells)])

loadOverride(h, a) ==
    IF a = NullRef THEN None
    ELSE Some([type |-> h[a].type, id |-> Val(loadCell(h, h[a].id))])

RECURSIVE loadEffect(_, _)
loadEffect(h, a) ==
    Effect(h[a].type, h[a].revision, h[a].id,
           loadOverride(h, h[a].idOverride), loadAtom(h, h[a].finalEndpoint),
           IF h[a].attach = NullRef THEN None
           ELSE Some(loadEffect(h, h[a].attach)),
           IF h[a].detach = NullRef THEN None
           ELSE Some(loadEffect(h, h[a].detach)))

loadMark(h, a) ==
    Mark(loadEffect(h, a), h[a].count, loadCell(h, h[a].cellId),
         h[a].changes, loadAtom(h, h[a].vestigialEndpoint))

\* cloneCellId: a copy of the CellId object whose lineage, where it has
\* one, is a new array of the same events.
cloneCellId(h, id) ==
    IF h[id].lineage # NullRef
    THEN LET lineage == Allocate(h, [kind |-> "array",
                                     items |-> h[h[id].lineage].items])
         IN  Allocate(lineage[1], [h[id] EXCEPT !.lineage = lineage[2]])
    ELSE Allocate(h, h[id])

\* cloneMarkEffect: a copy of the effect object whose attach and detach,
\* where it is an AttachAndDetach, are clones of the original ones.
RECURSIVE cloneMarkEffect(_, _)
cloneMarkEffect(h, effect) ==
    IF h[effect].type = "AttachAndDetach"
    THEN LET attach == cloneMarkEffect(h, h[effect].attach)
             detach == cloneMarkEffect(attach[1], h[effect].detach)
         IN  Allocate(detach[1], [h[effect] EXCEPT !.attach = attach[2],
                                                   !.detach = detach[2]])
    ELSE Allocate(h, h[effect])

\* cloneMark: a copy of the clone of the effect, with the count of the
\* mark and, where the mark has a cellId, a clone of it.
cloneMark(h, m) ==
    LET effect == cloneMarkEffect(h, m)
        clone == Allocate(effect[1],
                          [effect[1][effect[2]] EXCEPT !.count = h[m].count])
    IN  IF h[m].cellId # NullRef
        THEN LET cellId == cloneCellId(clone[1], h[m].cellId)
             IN  <<[cellId[1] EXCEPT ![clone[2]].cellId = cellId[2]], clone[2]>>
        ELSE clone

\* The objects an object refers to, and those reachable from a set.
Refs(object) ==
    CASE object.kind = "effect" ->
            {object.cellId, object.idOverride, object.finalEndpoint,
             object.vestigialEndpoint, object.attach, object.detach}
                \ {NullRef}
      [] object.kind = "cell" ->
            {object.lineage, object.adjacentCells} \ {NullRef}
      [] object.kind = "array" ->
            {object.items[i] : i \in 1..Len(object.items)}
      [] object.kind = "override" -> {object.id}
      [] OTHER -> {}

RECURSIVE Reachable(_, _)
Reachable(h, refs) ==
    LET more == refs \cup UNION {Refs(h[a]) : a \in refs}
    IN  IF more = refs THEN refs ELSE Reachable(h, more)

\* The mutations of one object: a write of one of its own fields, the
\* removal of its last element (an array), the deletion of a field.
Mutations(object) ==
    CASE object.kind = "effect" ->
            {[object EXCEPT !.id = @ + 1]}
                \cup (IF object.cellId = NullRef THEN {}
                      ELSE {[object EXCEPT !.cellId = NullRef]})
      [] object.kind = "cell" ->
            {[object EXCEPT !.localId = @ + 1]}
                \cup (IF object.lineage = NullRef THEN {}
                      ELSE {[object EXCEPT !.lineage = NullRef]})
      [] object.kind = "array" ->
            IF object.items = <<>> THEN {}
            ELSE {[object EXCEPT !.items = SubSeq(@, 1, Len(@) - 1)]}
      [] object.kind = "event" -> {[object EXCEPT !.offset = @ + 1]}
      [] object.kind = "range" -> {[object EXCEPT !.count = @ + 1]}
      [] object.kind = "override" -> {[object EXCEPT !.type = "Unattach"]}
      [] object.kind = "atom" -> {[object EXCEPT !.localId = @ + 1]}

\* The marks of one cell that the model draws.
CloneMarks == {m \in Marks : m.count = 1}

InitClone ==
    /\ sourceValue \in CloneMarks
    /\ heap = storeEffect(<<>>, sourceValue)[1]
    /\ sourceRef = storeEffect(<<>>, sourceValue)[2]
    /\ cloneRef = NullRef
    /\ mutatedSide = Idle
    /\ oldMarkCell = Idle /\ newMarkCell = Idle
    /\ oldChangeKnowledge = {} /\ newChangeKnowledge = {}
    /\ metadata = Idle /\ order = Idle /\ swappedOrder = Idle
    /\ OtherIdle
    /\ MarksIdle
    /\ TableIdle
    /\ TrackerIdle
    /\ RebasableIdle
    /\ MergeIdle
    /\ SettleIdle
    /\ RenameIdle
    /\ PredicatesIdle
    /\ LineagesIdle
    /\ resplit = None
    /\ OffsetIdle
    /\ pc = "clone"

otherThanClone ==
    <<cellVars, otherVars, markVars, tableVars, trackerVars, rebasableVars,
      mergeVars, settleVars, renameVars, predicateVars, lineageVars,
      resplit, offsetVars>>

Clone ==
    /\ pc = "clone"
    /\ heap' = cloneMark(heap, sourceRef)[1]
    /\ cloneRef' = cloneMark(heap, sourceRef)[2]
    /\ pc' = "cloned"
    /\ UNCHANGED <<sourceRef, sourceValue, mutatedSide, otherThanClone>>

\* One mutation of an object reached through the clone, or through the
\* source.
Mutate ==
    /\ pc = "cloned"
    /\ \E side \in {"clone", "source"} :
         \E a \in Reachable(heap, {IF side = "clone" THEN cloneRef
                                   ELSE sourceRef}) :
           \E object \in Mutations(heap[a]) :
              /\ heap' = [heap EXCEPT ![a] = object]
              /\ mutatedSide' = side
    /\ pc' = "mutated"
    /\ UNCHANGED <<sourceRef, cloneRef, sourceValue, otherThanClone>>

NextClone == Clone \/ Mutate

SpecClone == InitClone /\ [][NextClone]_vars

\* C21: no mutation of the clone that cloneMark returned changes the
\* source mark, and no mutation of the source mark changes the clone.
C21_CloneAsStated ==
    pc = "mutated"
    => IF mutatedSide = "clone"
       THEN loadMark(heap, sourceRef) = sourceValue
       ELSE loadMark(heap, cloneRef) = sourceValue

\* ---------------------------------------------------------------------
\* The attach predicates and the cell-emptiness predicates of a mark
\* ---------------------------------------------------------------------

getOutputLength(m, ignorePairing) ==
    IF areOutputCellsEmpty(m) THEN 0 ELSE m.count

markHasCellEffect(m) == areInputCellsEmpty(m) # areOutputCellsEmpty(m)

isNewAttach(m, revision) == isNewAttachEffect(m, m.cellId, revision)

isReattach(m) == isReattachEffect(m, m.cellId)

\* The marks the model draws, and the MoveIn marks without cellId.
PredicateMarks ==
    Marks \cup {Mark(e, 1, None, NoChanges, None) : e \in MoveInEffects}

InitPredicates ==
    /\ predicateArg \in PredicateMarks
    /\ predicateRevision \in OptRevisions
    /\ facts = None
    /\ oldMarkCell = Idle /\ newMarkCell = Idle
    /\ oldChangeKnowledge = {} /\ newChangeKnowledge = {}
    /\ metadata = Idle /\ order = Idle /\ swappedOrder = Idle
    /\ OtherIdle
    /\ MarksIdle
    /\ TableIdle
    /\ TrackerIdle
    /\ RebasableIdle
    /\ MergeIdle
    /\ SettleIdle
    /\ RenameIdle
    /\ CloneIdle
    /\ LineagesIdle
    /\ resplit = None
    /\ OffsetIdle
    /\ pc = "evaluate"

\* Every predicate, on the same mark.
Evaluate ==
    /\ pc = "evaluate"
    /\ facts' =
         Some([inputEmpty |-> areInputCellsEmpty(predicateArg),
               outputEmpty |-> areOutputCellsEmpty(predicateArg),
               inputLength |-> getInputLength(predicateArg),
               outputLength |-> getOutputLength(predicateArg, FALSE),
               outputLengthIgnoringPairing |->
                   getOutputLength(predicateArg, TRUE),
               emptiesCells |-> markEmptiesCells(predicateArg),
               fillsCells |-> markFillsCells(predicateArg),
               hasCellEffect |-> markHasCellEffect(predicateArg),
               newAttach |-> isNewAttach(predicateArg, predicateRevision),
               reattach |-> isReattach(predicateArg),
               activeReattach |-> isActiveReattach(predicateArg)])
    /\ pc' = "evaluated"
    /\ UNCHANGED <<predicateArg, predicateRevision, cellVars, otherVars,
                   markVars, tableVars, trackerVars, rebasableVars, mergeVars,
                   settleVars, renameVars, cloneVars, lineageVars,
                   resplit, offsetVars>>

NextPredicates == Evaluate

SpecPredicates == InitPredicates /\ [][NextPredicates]_vars

\* C22: the input cells of a mark are empty iff it has a cellId; its
\* output cells are empty for Delete, MoveOut and AttachAndDetach, not
\* empty for Insert and MoveIn, and for NoOp empty iff it has a cellId;
\* each length is 0 where the cells are empty and the count otherwise,
\* whatever ignorePairing is; a mark never both empties and fills cells,
\* and it has a cell effect iff it does one of the two.
C22_CellEmptiness ==
    pc = "evaluated"
    => LET m == predicateArg
           f == Val(facts)
       IN  /\ f.inputEmpty <=> IsSome(m.cellId)
           /\ m.type \in {"Delete", "MoveOut", "AttachAndDetach"}
                => f.outputEmpty
           /\ m.type \in {"Insert", "MoveIn"} => ~f.outputEmpty
           /\ m.type = NoopMarkType => (f.outputEmpty <=> IsSome(m.cellId))
           /\ f.inputLength = IF f.inputEmpty THEN 0 ELSE m.count
           /\ f.outputLength = IF f.outputEmpty THEN 0 ELSE m.count
           /\ f.outputLengthIgnoringPairing = f.outputLength
           /\ ~(f.emptiesCells /\ f.fillsCells)
           /\ f.hasCellEffect <=> (f.emptiesCells \/ f.fillsCells)

\* A NoOp mark of two cells that has a cellId: both lengths are 0 and the
\* mark has no cell effect.
C22_Witness ==
    /\ pc = "evaluated" /\ predicateArg.type = NoopMarkType
    /\ predicateArg.count = 2 /\ IsSome(predicateArg.cellId)
    /\ Val(facts).outputEmpty /\ Val(facts).outputLength = 0
    /\ Val(facts).inputLength = 0 /\ ~Val(facts).hasCellEffect

\* C23: of isNewAttach(mark, r) and isReattach(mark) exactly one is true
\* for an attach mark, isNewAttach being true exactly where the mark has a
\* cellId whose revision is the revision of the mark, each defaulting to
\* r; isReattach is false for a mark that is not an attach; and
\* isActiveReattach is true iff isReattach is and the mark has a cellId.
C23_AttachKinds ==
    pc = "evaluated"
    => LET m == predicateArg
           f == Val(facts)
       IN  /\ isAttach(m) => (f.newAttach # f.reattach)
           /\ isAttach(m) =>
                (f.newAttach <=>
                   /\ IsSome(m.cellId)
                   /\ orElse(m.revision, predicateRevision)
                        = orElse(Val(m.cellId).revision, predicateRevision))
           /\ ~isAttach(m) => ~f.reattach
           /\ f.activeReattach <=> (f.reattach /\ IsSome(m.cellId))

\* ---------------------------------------------------------------------
\* compareLineages
\* ---------------------------------------------------------------------

firstOffsets(lineage) ==
    [r \in {lineage[i].revision : i \in 1..Len(lineage)} |->
        LET first == CHOOSE i \in 1..Len(lineage) :
                        /\ lineage[i].revision = r
                        /\ \A j \in 1..(i - 1) : lineage[j].revision # r
        IN  lineage[first].offset]

\* cell1Events: for each revision of the lineage, the offset of the last
\* event of that revision (a later set replaces an earlier one).
lastOffsets(lineage) ==
    [r \in {lineage[i].revision : i \in 1..Len(lineage)} |->
        LET last == CHOOSE i \in 1..Len(lineage) :
                       /\ lineage[i].revision = r
                       /\ \A j \in (i + 1)..Len(lineage) :
                             lineage[j].revision # r
        IN  lineage[last].offset]

RECURSIVE scanLineageKeepingRevisions(_, _, _)
scanLineageKeepingRevisions(cell1Events, lineage2, i) ==
    IF i = 0 THEN 0
    ELSE LET event == lineage2[i]
         IN  IF event.revision \in DOMAIN cell1Events
             THEN LET offset1 == cell1Events[event.revision]
                      offset2 == event.offset
                  IN  IF offset1 < offset2 THEN -1
                      ELSE IF offset1 > offset2 THEN 1
                      ELSE scanLineageKeepingRevisions(cell1Events, lineage2,
                                                       i - 1)
             ELSE scanLineageKeepingRevisions(cell1Events, lineage2, i - 1)

\* The loop over lineage2, from its event i down to its first event.
RECURSIVE scanLineage(_, _, _)
scanLineage(cell1Events, lineage2, i) ==
    IF i = 0 THEN 0
    ELSE LET event == lineage2[i]
         IN  IF event.revision \in DOMAIN cell1Events
             THEN LET offset1 == cell1Events[event.revision]
                      offset2 == event.offset
                      remaining == [r \in DOMAIN cell1Events
                                           \ {event.revision} |->
                                       cell1Events[r]]
                  IN  IF offset1 < offset2 THEN -1
                      ELSE IF offset1 > offset2 THEN 1
                      ELSE scanLineage(remaining, lineage2, i - 1)
             ELSE scanLineage(cell1Events, lineage2, i - 1)

lineageOrEmpty(cell) == IF cell.lineage = None THEN <<>> ELSE Val(cell.lineage)

compareLineages(cell1, cell2) ==
    scanLineage(lastOffsets(lineageOrEmpty(cell1)), lineageOrEmpty(cell2),
                Len(lineageOrEmpty(cell2)))

\* The cells the model draws: a lineage has up to MaxLineage events.
LineageRevisions == {"r1", "r2"}
EventsOfLineages ==
    [revision : LineageRevisions, id : {0}, count : {1}, offset : 0..MaxOffset]
RECURSIVE LineagesUpTo(_)
LineagesUpTo(n) ==
    IF n = 0 THEN {<<>>}
    ELSE LineagesUpTo(n - 1)
            \cup {Append(l, e) : l \in {k \in LineagesUpTo(n - 1) :
                                          Len(k) = n - 1},
                                 e \in EventsOfLineages}
LineageCells ==
    {[revision |-> "r1", localId |-> 0, lineage |-> l, adjacentCells |-> None] :
        l \in {None} \cup {Some(k) : k \in LineagesUpTo(MaxLineage)}}

InitLineages ==
    /\ lineageCell1 \in LineageCells
    /\ lineageCell2 \in LineageCells
    /\ compared = None /\ comparedSwapped = None
    /\ oldMarkCell = Idle /\ newMarkCell = Idle
    /\ oldChangeKnowledge = {} /\ newChangeKnowledge = {}
    /\ metadata = Idle /\ order = Idle /\ swappedOrder = Idle
    /\ OtherIdle
    /\ MarksIdle
    /\ TableIdle
    /\ TrackerIdle
    /\ RebasableIdle
    /\ MergeIdle
    /\ SettleIdle
    /\ RenameIdle
    /\ CloneIdle
    /\ PredicatesIdle
    /\ resplit = None
    /\ OffsetIdle
    /\ pc = "compare lineages"

\* compareLineages of the two cells, in both orders.
CompareLineages ==
    /\ pc = "compare lineages"
    /\ compared' = Some(compareLineages(lineageCell1, lineageCell2))
    /\ comparedSwapped' = Some(compareLineages(lineageCell2, lineageCell1))
    /\ pc' = "lineages compared"
    /\ UNCHANGED <<lineageCell1, lineageCell2, cellVars, otherVars, markVars,
                   tableVars, trackerVars, rebasableVars, mergeVars,
                   settleVars, renameVars, cloneVars, predicateVars,
                   resplit, offsetVars>>

NextLineages == CompareLineages

SpecLineages == InitLineages /\ [][NextLineages]_vars

\* The positions of lineage2 whose revision has an event in lineage1 with
\* another offset.
Differing(lineage1, lineage2) ==
    {i \in 1..Len(lineage2) :
        \E j \in 1..Len(lineage1) :
            /\ lineage1[j].revision = lineage2[i].revision
            /\ lineage1[j].offset # lineage2[i].offset}

\* C24 as stated: compareLineages returns -1, 0 or 1; the last event of
\* the lineage of cell2 whose revision also occurs in the lineage of cell1
\* with a different offset decides (-1 where the offset of cell1 is
\* smaller, 1 where it is larger); the result is 0 where there is none.
C24_CompareLineagesAsStated ==
    pc = "lineages compared"
    => LET lineage1 == lineageOrEmpty(lineageCell1)
           lineage2 == lineageOrEmpty(lineageCell2)
           differing == Differing(lineage1, lineage2)
           result == Val(compared)
       IN  /\ result \in {-1, 0, 1}
           /\ differing = {} => result = 0
           /\ differing # {} =>
                LET i == CHOOSE k \in differing : \A n \in differing : n <= k
                    Offsets1 == {lineage1[j].offset : j \in
                                   {n \in 1..Len(lineage1) :
                                      lineage1[n].revision
                                        = lineage2[i].revision}}
                IN  /\ result # 0
                    /\ result = -1 =>
                         \E o \in Offsets1 : o < lineage2[i].offset
                    /\ result = 1 =>
                         \E o \in Offsets1 : o > lineage2[i].offset

\* The last event of each revision of a lineage.
lastEvents(lineage) ==
    {i \in 1..Len(lineage) :
        \A j \in (i + 1)..Len(lineage) :
            lineage[j].revision # lineage[i].revision}

\* The positions among the last events of lineage2 whose revision has a
\* last event in lineage1 with another offset.
DifferingLast(lineage1, lineage2) ==
    {i \in lastEvents(lineage2) :
        \E j \in lastEvents(lineage1) :
            /\ lineage1[j].revision = lineage2[i].revision
            /\ lineage1[j].offset # lineage2[i].offset}

\* C24: the same, where in each lineage only the last event of each
\* revision counts.
C24_CompareLineages ==
    pc = "lineages compared"
    => LET lineage1 == lineageOrEmpty(lineageCell1)
           lineage2 == lineageOrEmpty(lineageCell2)
           differing == DifferingLast(lineage1, lineage2)
           result == Val(compared)
       IN  /\ result \in {-1, 0, 1}
           /\ differing = {} => result = 0
           /\ differing # {} =>
                LET i == CHOOSE k \in differing : \A n \in differing : n <= k
                    j == CHOOSE k \in lastEvents(lineage1) :
                            lineage1[k].revision = lineage2[i].revision
                IN  result = IF lineage1[j].offset < lineage2[i].offset
                             THEN -1 ELSE 1

\* Two lineages of two events each: the last events agree, the first
\* ones decide.
C24_Witness ==
    /\ pc = "lineages compared"
    /\ Len(lineageOrEmpty(lineageCell1)) = 2
    /\ Len(lineageOrEmpty(lineageCell2)) = 2
    /\ lineageOrEmpty(lineageCell1)[2] = lineageOrEmpty(lineageCell2)[2]
    /\ lineageOrEmpty(lineageCell1)[1].revision
         # lineageOrEmpty(lineageCell1)[2].revision
    /\ compared = Some(-1)

\* C28 as stated: compareLineages of two cells is the negation of
\* compareLineages of the same cells exchanged.
C28_AntisymmetricAsStated ==
    pc = "lineages compared" => Val(compared) = -Val(comparedSwapped)

\* The position of the last event of a revision in a lineage.
lastEventOf(lineage, revision) ==
    CHOOSE i \in lastEvents(lineage) : lineage[i].revision = revision

\* The revisions that two lineages share come in the same order in both,
\* each revision taken at its last event.
SameOrderOfSharedRevisions(lineage1, lineage2) ==
    LET Shared == {lineage1[i].revision : i \in 1..Len(lineage1)}
                    \cap {lineage2[i].revision : i \in 1..Len(lineage2)}
    IN  \A a \in Shared, b \in Shared :
           (lastEventOf(lineage1, a) < lastEventOf(lineage1, b))
             <=> (lastEventOf(lineage2, a) < lastEventOf(lineage2, b))

\* C28: compareLineages of two cells whose lineages list the revisions
\* they share in the same order is the negation of compareLineages of the
\* same cells exchanged.
C28_Antisymmetric ==
    ( /\ pc = "lineages compared"
      /\ SameOrderOfSharedRevisions(lineageOrEmpty(lineageCell1),
                                    lineageOrEmpty(lineageCell2)) )
    => Val(compared) = -Val(comparedSwapped)

\* Two lineages of the same two revisions in the same order, whose
\* offsets differ for both revisions: one order says earlier, the other
\* later.
C28_Witness ==
    /\ pc = "lineages compared"
    /\ Len(lineageOrEmpty(lineageCell1)) = 2
    /\ Len(lineageOrEmpty(lineageCell2)) = 2
    /\ \A i \in 1..2 :
          /\ lineageOrEmpty(lineageCell1)[i].revision
               = lineageOrEmpty(lineageCell2)[i].revision
          /\ lineageOrEmpty(lineageCell1)[i].offset
               # lineageOrEmpty(lineageCell2)[i].offset
    /\ lineageOrEmpty(lineageCell1)[1].revision
         # lineageOrEmpty(lineageCell1)[2].revision
    /\ compared = Some(-1) /\ comparedSwapped = Some(1)

\* ---------------------------------------------------------------------
\* splitMark and the lengths of a mark
\* ---------------------------------------------------------------------

HasSplit == pc = "split" /\ splitResult # SplitFailure

C30_SplitLengths ==
    HasSplit
    => LET head == splitResult[1]
           tail == splitResult[2]
       IN  /\ getInputLength(head) + getInputLength(tail)
                = getInputLength(mark)
           /\ getOutputLength(head, FALSE) + getOutputLength(tail, FALSE)
                = getOutputLength(mark, FALSE)
           /\ head.type = mark.type /\ tail.type = mark.type
           /\ areInputCellsEmpty(head) = areInputCellsEmpty(mark)
           /\ areInputCellsEmpty(tail) = areInputCellsEmpty(mark)
           /\ areOutputCellsEmpty(head) = areOutputCellsEmpty(mark)
           /\ areOutputCellsEmpty(tail) = areOutputCellsEmpty(mark)

\* A NoOp mark of three cells that has a cellId, and an Insert of three
\* cells, were split: the lengths of the parts add up to 0 in the first
\* case and to 3 as output length in the second.
C30_Witness ==
    /\ HasSplit /\ mark.count = 3 /\ IsSome(mark.cellId)
    /\ mark.type \in {NoopMarkType, "Insert"}
    /\ getOutputLength(splitResult[1], FALSE)
         + getOutputLength(splitResult[2], FALSE)
         = IF mark.type = "Insert" THEN 3 ELSE 0
    /\ getInputLength(mark) = 0

\* ---------------------------------------------------------------------
\* tryMergeMarks followed by splitMark
\* ---------------------------------------------------------------------

\* The cells of the marks: those of the tryMergeMarks harness, cells with
\* adjacentCells, and cells whose lineage events differ in id and count
\* only.
RoundTripCells ==
    MergeCells
    \cup {Some([revision |-> "r1", localId |-> i, lineage |-> None,
                adjacentCells |-> Some(<<[id |-> 0, count |-> 2]>>)]) :
            i \in 0..1}
    \cup {Some([revision |-> "r1", localId |-> 0,
                lineage |-> Some(<<[revision |-> "r2", id |-> i,
                                    count |-> 2 - i, offset |-> 1]>>),
                adjacentCells |-> None]) : i \in 0..1}

RoundTripMarks ==
    { m \in { Mark(x[1], x[2], x[3], NoChanges, x[4]) :
                x \in MergeEffects \X {1, 2} \X RoundTripCells
                        \X MergeEndpoints } :
        IsValidMark(m) }

InitRoundTrip ==
    /\ lhsMark \in RoundTripMarks
    /\ rhsMark \in {m \in RoundTripMarks : m.count = 1}
    /\ mergedMark = Idle
    /\ resplit = None
    /\ oldMarkCell = Idle /\ newMarkCell = Idle
    /\ oldChangeKnowledge = {} /\ newChangeKnowledge = {}
    /\ metadata = Idle /\ order = Idle /\ swappedOrder = Idle
    /\ OtherIdle
    /\ MarksIdle
    /\ TableIdle
    /\ TrackerIdle
    /\ RebasableIdle
    /\ SettleIdle
    /\ RenameIdle
    /\ CloneIdle
    /\ PredicatesIdle
    /\ LineagesIdle
    /\ OffsetIdle
    /\ pc = "round trip"

\* tryMergeMarks, then splitMark of the mark it returned at the count of
\* lhs.
MergeThenSplit ==
    /\ pc = "round trip"
    /\ LET merged == tryMergeMarks(lhsMark, rhsMark)
       IN  /\ mergedMark' = merged
           /\ resplit' = IF merged = None THEN None
                         ELSE Some(splitMark(Val(merged), lhsMark.count))
    /\ pc' = "round trip done"
    /\ UNCHANGED <<lhsMark, rhsMark, cellVars, otherVars, markVars, tableVars,
                   trackerVars, rebasableVars, settleVars, renameVars,
                   cloneVars, predicateVars, lineageVars, offsetVars>>

NextRoundTrip == MergeThenSplit

SpecRoundTrip == InitRoundTrip /\ [][NextRoundTrip]_vars

\* C27: where tryMergeMarks(a, b) returns a mark m, splitMark(m, a.count)
\* returns the pair of a and b.
C27_MergeThenSplit ==
    (pc = "round trip done" /\ IsSome(mergedMark))
    => resplit = Some(<<lhsMark, rhsMark>>)

\* ---------------------------------------------------------------------
\* CrossFieldTable: isInvalidated between two resets
\* ---------------------------------------------------------------------

\* The fields of the table newCrossFieldTable returns.
FreshTable ==
    [srcQueries |-> EmptyCrossFieldMap, dstQueries |-> EmptyCrossFieldMap,
     isInvalidated |-> FALSE,
     mapSrc |-> EmptyCrossFieldMap, mapDst |-> EmptyCrossFieldMap]

\* A table on which get was called with addDependency and then set with
\* invalidateDependents, on the same target, revision and id. calls counts
\* the calls made after these two.
InitInvalidated ==
    /\ \E target \in CrossFieldTargets, revision \in TableRevisions,
          id \in MoveIds, count \in {1}, setId \in MoveIds, setCount \in {1} :
         LET queries == addCrossFieldQuery(FreshTable.srcQueries, revision,
                                           id, count)
             values == setInCrossFieldMap(FreshTable.mapSrc, revision, setId,
                                          setCount, "v1")
         IN  /\ srcQueries = IF target = Source THEN queries
                             ELSE FreshTable.srcQueries
             /\ dstQueries = IF target = Destination THEN queries
                             ELSE FreshTable.dstQueries
             /\ isInvalidated =
                   IF getFromRangeMap(queries[revision], setId, setCount)
                        # None
                   THEN TRUE ELSE FreshTable.isInvalidated
             /\ isInvalidated
             /\ mapSrc = IF target = Source THEN values
                         ELSE FreshTable.mapSrc
             /\ mapDst = IF target = Destination THEN values
                         ELSE FreshTable.mapDst
             /\ dependencies =
                   [NoDependencies EXCEPT ![target, revision] =
                       id..(id + count - 1)]
    /\ returned = None
    /\ earlierDependencies = NoDependencies
    /\ calls = 0
    /\ oldMarkCell = Idle /\ newMarkCell = Idle
    /\ oldChangeKnowledge = {} /\ newChangeKnowledge = {}
    /\ metadata = Idle /\ order = Idle /\ swappedOrder = Idle
    /\ OtherIdle
    /\ ChecksIdle
    /\ MarksIdle
    /\ TrackerIdle
    /\ pc = "table"

AnyGet ==
    \E target \in CrossFieldTargets, revision \in TableRevisions,
       id \in MoveIds, count \in Ranges, addDependency \in BOOLEAN :
         Get(target, revision, id, count, addDependency)

AnySet ==
    \E target \in CrossFieldTargets, revision \in TableRevisions,
       id \in MoveIds, count \in Ranges, value \in Values,
       invalidateDependents \in BOOLEAN :
         Set(target, revision, id, count, value, invalidateDependents)

NextInvalidated ==
    \/ calls < MaxLaterCalls /\ AnyGet
    \/ calls < MaxLaterCalls /\ AnySet
    \/ Reset

SpecInvalidated == InitInvalidated /\ [][NextInvalidated]_vars

\* C29: isInvalidated is false on the table newCrossFieldTable returns;
\* it goes from true to false in a reset only; and a step that changes
\* isInvalidated or a value map is not a get.
C29_InvalidatedUntilReset ==
    /\ ~FreshTable.isInvalidated
    /\ [][/\ (isInvalidated /\ ~isInvalidated') => Reset
          /\ ( \/ isInvalidated' # isInvalidated
               \/ mapSrc' # mapSrc \/ mapDst' # mapDst ) => ~AnyGet]_vars

\* An invalidated table on which one more call was made, a set of a range
\* that was never read, and that is still invalidated.
C29_Witness ==
    /\ pc = "table" /\ calls = 1 /\ isInvalidated
    /\ dependencies[Source, "r1"] = {0}
    /\ mapSrc["r1"] # {} /\ mapDst[Undef] # {}
    /\ earlierDependencies = NoDependencies

\* ---------------------------------------------------------------------
\* getOffsetInCellRange
\* ---------------------------------------------------------------------

areOverlappingIdRanges(id1, count1, id2, count2) ==
    LET lastId1 == id1 + count1 - 1
        lastId2 == id2 + count2 - 1
    IN  (id2 <= id1 /\ id1 <= lastId2) \/ (id1 <= id2 /\ id2 <= lastId1)

\* The loop over the events of the lineage, from event i on. None stands
\* for undefined.
RECURSIVE offsetFromEvent(_, _, _, _, _)
offsetFromEvent(lineage, revision, id, count, i) ==
    IF i > Len(lineage) THEN None
    ELSE LET event == lineage[i]
         IN  IF /\ event.revision = revision
                /\ areOverlappingIdRanges(id, count, event.id, event.count)
             THEN Some(event.id + event.offset - id)
             ELSE offsetFromEvent(lineage, revision, id, count, i + 1)

getOffsetInCellRange(lineage, revision, id, count) ==
    IF lineage = None \/ revision = Undef THEN None
    ELSE offsetFromEvent(Val(lineage), revision, id, count, 1)

\* The lineages the model draws: up to two events, each of a range of
\* cells and an offset in that range.
OffsetEvents ==
    {e \in [revision : Revisions, id : LocalIds, count : Ranges,
            offset : 0..MaxRange] : e.offset <= e.count}
OffsetLineages ==
    {None, Some(<<>>)} \cup {Some(<<e>>) : e \in OffsetEvents}
        \cup {Some(<<e, f>>) : e \in OffsetEvents, f \in OffsetEvents}

InitOffset ==
    /\ offsetLineage \in OffsetLineages
    /\ offsetRevision \in OptRevisions
    /\ offsetId \in LocalIds
    /\ offsetCount \in Ranges
    /\ offsetResult = None
    /\ oldMarkCell = Idle /\ newMarkCell = Idle
    /\ oldChangeKnowledge = {} /\ newChangeKnowledge = {}
    /\ metadata = Idle /\ order = Idle /\ swappedOrder = Idle
    /\ OtherIdle
    /\ MarksIdle
    /\ TableIdle
    /\ TrackerIdle
    /\ RebasableIdle
    /\ MergeIdle
    /\ SettleIdle
    /\ RenameIdle
    /\ CloneIdle
    /\ PredicatesIdle
    /\ LineagesIdle
    /\ resplit = None
    /\ pc = "offset"

GetOffset ==
    /\ pc = "offset"
    /\ offsetResult' = getOffsetInCellRange(offsetLineage, offsetRevision,
                                            offsetId, offsetCount)
    /\ pc' = "offset done"
    /\ UNCHANGED <<offsetLineage, offsetRevision, offsetId, offsetCount,
                   cellVars, otherVars, markVars, tableVars, trackerVars,
                   rebasableVars, mergeVars, settleVars, renameVars, cloneVars,
                   predicateVars, lineageVars, resplit>>

NextOffset == GetOffset

SpecOffset == InitOffset /\ [][NextOffset]_vars

\* The events of the lineage that have the revision asked for and a range
\* that overlaps the range asked for.
OverlappingEvents ==
    IF offsetLineage = None THEN {}
    ELSE {i \in 1..Len(Val(offsetLineage)) :
            LET event == Val(offsetLineage)[i]
            IN  /\ event.revision = offsetRevision
                /\ event.id < offsetId + offsetCount
                /\ offsetId < event.id + event.count}

\* C26: getOffsetInCellRange returns undefined where the lineage or the
\* revision is undefined or no event of the revision overlaps the range;
\* otherwise it returns the number of cells of the range that come before
\* the position of the first such event, which is between 0 and count.
C26_OffsetInRange ==
    pc = "offset done"
    => IF offsetRevision = Undef \/ OverlappingEvents = {}
       THEN offsetResult = None
       ELSE LET first == CHOOSE i \in OverlappingEvents :
                            \A j \in OverlappingEvents : i <= j
                event == Val(offsetLineage)[first]
                Before == {c \in offsetId..(offsetId + offsetCount - 1) :
                             c < event.id + event.offset}
            IN  /\ IsSome(offsetResult)
                /\ Val(offsetResult) = Cardinality(Before)
                /\ 0 <= Val(offsetResult)
                /\ Val(offsetResult) <= offsetCount

====
